---- MODULE Spec2Model ----
(***************************************************************************)
(* A model of the xtest-data resource resolver (src/src/lib.rs) and of its *)
(* VCS driver (src/src/git.rs).                                            *)
(*                                                                         *)
(* Every resolver invocation (one test process calling setup!() and then   *)
(* build()) is a process of the model.  Invocations share data directories *)
(* on the file system: the advisory lock file, the bare object store and   *)
(* the worktree directories.  The external git binary is the environment:  *)
(* each command the driver spawns is one step whose exit status is chosen  *)
(* nondeterministically among the outcomes git can produce in that state.  *)
(***************************************************************************)
EXTENDS Integers, Sequences, FiniteSets, TLC

(***************************************************************************)
(* Bounds of the model.                                                    *)
(***************************************************************************)
\* Most entries a caller registers in each collection (add / rewrite).
MaxEntries == 1
\* Number of distinct suffixes the random generator of unique_dir can draw.
NumNames == 2
\* Most calls of add() on one Setup where the keys are what is looked at.
MaxAdds == 3

(***************************************************************************)
(* Option<T>: None is the empty sequence, Some(x) the one-element one.     *)
(***************************************************************************)
None == <<>>
Some(x) == <<x>>
IsSome(o) == o # <<>>
Unwrap(o) == o[1]

(***************************************************************************)
(* Strings.  str::trim removes leading and trailing whitespace.            *)
(***************************************************************************)
Whitespace == {" ", "\n", "\t"}

RECURSIVE TrimStart(_)
TrimStart(s) ==
    IF Len(s) > 0 /\ SubSeq(s, 1, 1) \in Whitespace
    THEN TrimStart(SubSeq(s, 2, Len(s)))
    ELSE s

RECURSIVE TrimEnd(_)
TrimEnd(s) ==
    IF Len(s) > 0 /\ SubSeq(s, Len(s), Len(s)) \in Whitespace
    THEN TrimEnd(SubSeq(s, 1, Len(s) - 1))
    ELSE s

Trim(s) == TrimEnd(TrimStart(s))

\* The positions of c in s.
Positions(s, c) == {i \in 1..Len(s) : SubSeq(s, i, i) = c}

HasChar(s, c) == Positions(s, c) # {}

(***************************************************************************)
(* git::CommitId: an opaque trimmed token of at least 40 characters.       *)
(***************************************************************************)
CommitMinLen == 40

\* Stand-in for a character that UTF-8 encodes in two bytes.
WideChar == "~"

\* str::len: the length of the UTF-8 encoding, in bytes.
ByteLen(s) == Len(s) + Cardinality(Positions(s, WideChar))

\* Mutant of CommitIdAccepted: the length is taken before trimming.
CommitIdAcceptedUntrimmed(st) == ByteLen(st) >= CommitMinLen

\* The assertion of CommitId::from: the trimmed token is long enough.
CommitIdAccepted(st) == ByteLen(Trim(st)) >= CommitMinLen

\* CommitId::from(st), defined where the assertion holds.
CommitIdFrom(st) == Trim(st)

CommitA == "aaaaaaaaaaaaaaaaaaaaaaaaaaaaaaaaaaaaaaaa"
CommitB == "bbbbbbbbbbbbbbbbbbbbbbbbbbbbbbbbbbbbbbbb"
ShortId == "aaaaaaaaaaaaaaaaaaaaaaaaaaaaaaaaaaaaaaa"
\* 39 characters, 40 bytes.
WideId == "aaaaaaaaaaaaaaaaaaaaaaaaaaaaaaaaaaaaaa" \o WideChar
Commits == {CommitA, CommitB}

(***************************************************************************)
(* Paths are sequences of components; the root directory is the component  *)
(* "/".  Path::join replaces the base when the joined path is absolute.    *)
(***************************************************************************)
IsAbsolute(path) == Len(path) > 0 /\ path[1] = "/"

Join(base, path) == IF IsAbsolute(path) THEN path ELSE base \o path

Parent(path) == SubSeq(path, 1, Len(path) - 1)

(***************************************************************************)
(* The invocations and the values they are started with.                   *)
(***************************************************************************)
Procs == {"A", "B"}

\* The manifest directory of the crate under test (CARGO_MANIFEST_DIR).
Manifest == <<"/", "crate">>

\* Data directories an invocation can be pointed at.
TmpA == <<"/", "t1">>
TmpB == <<"/", "t2">>
TmpC == <<"/", "t3">>
DataDirs == {TmpA, TmpB, TmpC}

\* Repository locators.
PkgUrl == "https://origin"
MirrorUrl == "file:///mirror"

\* A value of an environment variable that is not valid unicode.
NotUnicode == "<invalid-utf8>"

\* The directory of pre-shipped packs named by CARGO_XTEST_DATA_PACK_OBJECTS.
PackDir == "/packs"

\* Paths a test may register.
RelPath == <<"tests", "data.zip">>
AbsPath == <<"/", "etc", "hosts">>
AbsInPath == <<"/", "crate", "tests", "data.zip">>
UpPath == <<"..", "outside.bin">>
NlPath == <<"tests", "a\nb">>
MissingPath == <<"tests", "missing.bin">>
PathInputs == {RelPath, AbsPath, AbsInPath, UpPath, NlPath, MissingPath}

VARIABLES
    pc,         \* pc[p]: where invocation p stands in setup!() ... build()
    opts,       \* opts[p]: the EnvOptions gathered at compile time
    env,        \* env[p]: the runtime environment of the process
    pin,        \* pin[p]: the .cargo_vcs_info.json of the manifest directory
    gitBin,     \* gitBin[p]: whether a git binary is on the PATH
    wc,         \* wc[p]: git status of each path in the local working copy
    script,     \* script[p]: the registrations the calling test still makes
    setup,      \* setup[p]: the Setup value (repository, source, pack_objects)
    resources,  \* resources[p]: Resources (relative_files, unmanaged)
    registered, \* registered[p]: the paths as the caller registered them
    keys,       \* keys[p]: the Files keys returned by add(), in call order
    datapath,   \* datapath[p]: Option, the worktree directory of this build
    shallow,    \* shallow[p]: Option, the ShallowBareRepository handle
    cleared,    \* cleared[p]: Option, the ClearedOrigin of the consent gate
    sparse,     \* sparse[p]: the PathSpecFilter of the running checkout
    fsdata,     \* fsdata[p]: Option, the FsData map returned by build()
    why,        \* why[p]: the diagnostic of the abort, "" when none
    errlog,     \* errlog[p]: what the process wrote to standard error
    log,        \* log[p]: the commands the process spawned, in order
    lockFile,   \* lockFile[d]: whether <d>/xtest-data.lock exists
    lockHolder, \* lockHolder[d]: the process holding the exclusive lock
    store,      \* store[d]: the bare store <d>/xtest-data-git
    trees,      \* trees[d]: the directories <d>/xtest-data-tree* and contents
    packs,      \* packs: the pre-shipped pack directory
    retried,    \* retried[p]: unique_dir met an existing directory
    xt          \* xt: the orchestrator's archive of the pack directory

vars == <<pc, opts, env, pin, gitBin, wc, script, setup, resources, registered,
          keys, datapath, shallow, cleared, sparse, fsdata, why, errlog, log,
          lockFile, lockHolder, store, trees, packs, retried, xt>>

\* The values an invocation is started with, and the orchestrator's archive:
\* no step of the resolver changes them.
inputs == <<opts, env, pin, gitBin, wc, xt>>

\* The shared file system under the data directories.
fsvars == <<lockFile, lockHolder, store, trees, packs>>

NoProc == "none"

(***************************************************************************)
(* _setup: the Mode Detector.  SetupOutcome is the function the body of    *)
(* _setup computes from the compile-time options, the environment, the pin *)
(* file and the PATH search; ok = FALSE stands for the abort.              *)
(***************************************************************************)
\* tinyjson::JsonValue, as far as _setup looks into it.
JString(s) == [t |-> "string", s |-> s]
JNumber == [t |-> "number"]
JObject(f) == [t |-> "object", f |-> f]

\* lib.rs 232-236: GetKey::get_key, None unless the value is an object
\* that has the key.
GetKey(v, key) ==
    IF v.t = "object" /\ key \in DOMAIN v.f THEN Some(v.f[key]) ELSE None

\* JsonValue::get::<String>
GetString(v) == IF v.t = "string" THEN Some(v.s) ELSE None

\* lib.rs 243-250: the chain git, sha1, string.
VcsGit(doc) == GetKey(doc, "git")

\* Mutant of VcsSha1: a sha1 key of the document itself is taken first.
VcsSha1Anywhere(doc) ==
    IF IsSome(GetKey(doc, "sha1")) THEN GetKey(doc, "sha1")
    ELSE IF IsSome(VcsGit(doc)) THEN GetKey(Unwrap(VcsGit(doc)), "sha1")
    ELSE None

VcsSha1(doc) ==
    IF IsSome(VcsGit(doc)) THEN GetKey(Unwrap(VcsGit(doc)), "sha1") ELSE None

VcsCommit(doc) ==
    IF IsSome(VcsSha1(doc)) THEN GetString(Unwrap(VcsSha1(doc))) ELSE None

\* Mutant of PinExists: a pin file that cannot be read counts as absent.
PinExistsAndReadable(pn) == pn.exists /\ pn.readable

\* lib.rs 226-229: vcs_info_path.exists()
PinExists(pn) == pn.exists

NoSetup ==
    [ok |-> FALSE, why |-> "", repository |-> "", manifest |-> <<>>,
     mode |-> "Unset",
     commit_id |-> "", datadir |-> None, pack_objects |-> None]

SetupAbort(msg) == [NoSetup EXCEPT !.why = msg]

\* Mutant of Repository: the override is not looked at.
RepositoryCompileTime(o, e) == o.pkg_repository

\* lib.rs 218-219: the override of the repository URL.
Repository(o, e) ==
    IF IsSome(e.ORIGIN) THEN Unwrap(e.ORIGIN) ELSE o.pkg_repository

\* Mutant of DataDirChoice: TMPDIR is looked at before the other two.
DataDirChoiceTmpdirFirst(o, e) ==
    IF IsSome(e.TMPDIR) THEN e.TMPDIR
    ELSE IF IsSome(o.target_tmpdir) THEN o.target_tmpdir
    ELSE e.XTMP

\* lib.rs 259-272: the data directory, by precedence.
DataDirChoice(o, e) ==
    IF IsSome(o.target_tmpdir) THEN o.target_tmpdir
    ELSE IF IsSome(e.XTMP) THEN e.XTMP
    ELSE e.TMPDIR

SetupOutcome(o, e, pn, git) ==
    IF o.pkg_repository = "" THEN
        SetupAbort("The crate must have a valid URL in package.repository")
    ELSE IF PinExists(pn) THEN
        IF ~pn.readable THEN SetupAbort("read_to_string")
        ELSE IF ~pn.parses THEN SetupAbort("parse")
        ELSE IF ~IsSome(VcsGit(pn.doc)) THEN
            SetupAbort("VCS does not contain a git section.")
        ELSE IF ~IsSome(VcsSha1(pn.doc)) THEN
            SetupAbort("VCS commit ID not recognized.")
        ELSE IF ~IsSome(VcsCommit(pn.doc)) THEN
            SetupAbort("VCS commit ID is not a string")
        ELSE IF ~CommitIdAccepted(Unwrap(VcsCommit(pn.doc))) THEN
            SetupAbort("Unlikely to be a safe Git Object ID in vcs pin file")
        ELSE IF ~git THEN SetupAbort("which git")
        ELSE IF ~IsSome(DataDirChoice(o, e)) THEN
            SetupAbort("This setup must only be called in an integration test")
        ELSE IF Repository(o, e) = "" THEN
            SetupAbort("The repository must have a valid URL")
        ELSE
            [ok |-> TRUE, why |-> "", repository |-> Repository(o, e),
             manifest |-> o.manifest_dir, mode |-> "VcsFromManifest",
             commit_id |-> CommitIdFrom(Unwrap(VcsCommit(pn.doc))),
             datadir |-> DataDirChoice(o, e),
             pack_objects |-> e.PACK]
    ELSE
        IF ~git THEN SetupAbort("which git")
        ELSE IF Repository(o, e) = "" THEN
            SetupAbort("The repository must have a valid URL")
        ELSE
            [ok |-> TRUE, why |-> "", repository |-> Repository(o, e),
             manifest |-> o.manifest_dir, mode |-> "Local",
             commit_id |-> "", datadir |-> None,
             pack_objects |-> e.PACK]

NoResources == [relative_files |-> <<>>, unmanaged |-> <<>>]

Setup(p) ==
    /\ pc[p] = "start"
    /\ LET r == SetupOutcome(opts[p], env[p], pin[p], gitBin[p]) IN
        /\ setup' = [setup EXCEPT ![p] = r]
        /\ why' = [why EXCEPT ![p] = r.why]
        /\ pc' = [pc EXCEPT ![p] = IF r.ok THEN "configured" ELSE "aborted"]
    /\ UNCHANGED <<inputs, fsvars, script, resources, registered, keys,
                   datapath, shallow, cleared, sparse, fsdata, errlog, log,
                   retried>>

(***************************************************************************)
(* Setup::add and Setup::rewrite: the Resource Registry.                   *)
(***************************************************************************)
\* Mutant of NextKey: the keys count from one.
NextKeyOneBased(res) == Len(res.relative_files) + 1

\* lib.rs 349: the key of an entry is the length before the push.
NextKey(res) == Len(res.relative_files)

\* lib.rs 346-356: push the path, return the former length as the key.
Add(p) ==
    /\ pc[p] = "configured"
    /\ script[p].adds # <<>>
    /\ LET path == Head(script[p].adds)
           key == NextKey(resources[p]) IN
        /\ resources' = [resources EXCEPT
               ![p].relative_files = Append(@, path)]
        /\ keys' = [keys EXCEPT ![p] = Append(@, key)]
        /\ registered' = [registered EXCEPT ![p].managed = Append(@, path)]
    /\ script' = [script EXCEPT ![p].adds = Tail(@)]
    /\ UNCHANGED <<inputs, fsvars, pc, setup, datapath, shallow, cleared,
                   sparse, fsdata, why, errlog, log, retried>>

\* lib.rs 325-328: extend the borrowed collection by every item of the call.
Rewrite(p) ==
    /\ pc[p] = "configured"
    /\ script[p].rewrites # <<>>
    /\ LET items == Head(script[p].rewrites) IN
        /\ resources' = [resources EXCEPT ![p].unmanaged = @ \o items]
        /\ registered' = [registered EXCEPT ![p].borrowed = @ \o items]
    /\ script' = [script EXCEPT ![p].rewrites = Tail(@)]
    /\ UNCHANGED <<inputs, fsvars, pc, setup, keys, datapath, shallow,
                   cleared, sparse, fsdata, why, errlog, log, retried>>

(***************************************************************************)
(* Resources::as_paths and Resources::path_specs: the managed entries      *)
(* followed by the borrowed ones.  A PathSpec::Path is kept as its path;   *)
(* its rendering is PathSpecDisplay.                                       *)
(***************************************************************************)
AsPaths(res) == res.relative_files \o res.unmanaged

\* Mutant of PathSpecs: the borrowed entries come first.
PathSpecsBorrowedFirst(res) == res.unmanaged \o res.relative_files

PathSpecs(res) == res.relative_files \o res.unmanaged

RECURSIVE PathDisplay(_)
PathDisplay(path) ==
    IF Len(path) = 0 THEN ""
    ELSE IF Len(path) = 1 THEN path[1]
    ELSE IF path[1] = "/" THEN "/" \o PathDisplay(Tail(path))
    ELSE path[1] \o "/" \o PathDisplay(Tail(path))

PathSpecDisplay(path) == ":(top,literal)" \o PathDisplay(path)

\* Stand-in for the NUL character, which a string of the model cannot hold.
NulChar == "^"

\* Mutant of IsSimple: only the newline is looked for.
IsSimpleUnlessNewline(path) == ~HasChar(PathDisplay(path), "\n")

\* git.rs 324-344: a pathspec is simple when its rendering has no newline
\* and no NUL; every other one is complex.
IsSimple(path) ==
    /\ ~HasChar(PathDisplay(path), "\n")
    /\ ~HasChar(PathDisplay(path), NulChar)

RECURSIVE SelectSeq2(_, _)
SelectSeq2(seq, keep) ==
    IF seq = <<>> THEN <<>>
    ELSE IF Head(seq) \in keep THEN <<Head(seq)>> \o SelectSeq2(Tail(seq), keep)
    ELSE SelectSeq2(Tail(seq), keep)

Range(seq) == {seq[i] : i \in DOMAIN seq}

PathSpecFilter(paths) ==
    [simple_filter |-> SelectSeq2(paths, {x \in Range(paths) : IsSimple(x)}),
     complex_paths |-> SelectSeq2(paths, {x \in Range(paths) : ~IsSimple(x)})]

NoFilter == [simple_filter |-> <<>>, complex_paths |-> <<>>]

(***************************************************************************)
(* The repository.  Every commit holds the same tracked paths; an object   *)
(* is <<commit, path>>, with the empty path for the commit and its trees.  *)
(***************************************************************************)
TreePaths == {RelPath, NlPath}

Skeleton(c) == <<c, <<>>>>
Blob(c, path) == <<c, path>>

\* The path inside the tree that a pathspec of the working copy names.
InTree(path) ==
    IF Len(path) > Len(Manifest) /\ SubSeq(path, 1, Len(Manifest)) = Manifest
    THEN SubSeq(path, Len(Manifest) + 1, Len(path))
    ELSE path

\* The commit the remote's default branch points at, and the local HEAD.
RemoteHead == CommitB
LocalHead == CommitA

\* An event of log[p]: a spawned command (or the consent gate).
Event(op, commit, url, ok) ==
    [op |-> op, commit |-> commit, url |-> url, ok |-> ok]

Abort(p, msg) ==
    /\ pc' = [pc EXCEPT ![p] = "aborted"]
    /\ why' = [why EXCEPT ![p] = msg]

Logged(p, ev) == log' = [log EXCEPT ![p] = Append(@, ev)]

(***************************************************************************)
(* Setup::build, entry: the match on the source (lib.rs 369-372, 393-400). *)
(***************************************************************************)
\* Mutant of BuildStart: every source takes the branch of an archive.
BuildStartArchive(p) ==
    /\ pc[p] = "configured"
    /\ script[p].adds = <<>>
    /\ script[p].rewrites = <<>>
    /\ pc' = [pc EXCEPT ![p] = "unique_dir"]
    /\ UNCHANGED <<inputs, fsvars, script, setup, resources, registered, keys,
                   datapath, shallow, cleared, sparse, fsdata, why, errlog,
                   log, retried>>

BuildStart(p) ==
    /\ pc[p] = "configured"
    /\ script[p].adds = <<>>
    /\ script[p].rewrites = <<>>
    /\ pc' = [pc EXCEPT ![p] =
                IF setup[p].mode = "Local" THEN "crate_dir" ELSE "unique_dir"]
    /\ UNCHANGED <<inputs, fsvars, script, setup, resources, registered, keys,
                   datapath, shallow, cleared, sparse, fsdata, why, errlog,
                   log, retried>>

(***************************************************************************)
(* Local mode (lib.rs 372-392).                                            *)
(***************************************************************************)
\* git.rs 163-173: CrateDir::new runs `git status --short`; only a failure
\* to spawn aborts, the exit status is not looked at.
CrateDirNew(p) ==
    /\ pc[p] = "crate_dir"
    /\ \E spawned \in BOOLEAN, ok \in BOOLEAN :
        IF spawned
        THEN /\ Logged(p, Event("status", "", "", ok))
             /\ pc' = [pc EXCEPT ![p] = "tracked"]
             /\ UNCHANGED why
        ELSE /\ Abort(p, "spawn")
             /\ UNCHANGED log
    /\ UNCHANGED <<inputs, fsvars, script, setup, resources, registered, keys,
                   datapath, shallow, cleared, sparse, fsdata, errlog,
                   retried>>

\* The leading bytes of the records `git status` prints for the pathspecs:
\* changed entries, then untracked ones, then ignored ones.  A pathspec
\* that lies outside the repository matches nothing; when git gives up
\* (fatal: no repository, a pathspec it rejects) it exits non-zero without
\* printing a record.
RECURSIVE StatusBytes(_, _, _, _)
StatusBytes(w, paths, status, byte) ==
    IF paths = <<>> THEN <<>>
    ELSE (IF w[Head(paths)] = status THEN <<byte>> ELSE <<>>)
         \o StatusBytes(w, Tail(paths), status, byte)

StatusRecords(w, paths, fatal) ==
    IF fatal THEN <<>>
    ELSE StatusBytes(w, paths, "modified", "M")
         \o StatusBytes(w, paths, "untracked", "?")
         \o StatusBytes(w, paths, "ignored", "!")

\* Mutants of TrackedVerdict: only ignored files are refused, and nothing is.
RECURSIVE TrackedVerdictIgnoredOnly(_)
TrackedVerdictIgnoredOnly(items) ==
    IF items = <<>> THEN ""
    ELSE IF Head(items) = "!" THEN "Your test depends on ignored file(s)"
    ELSE TrackedVerdictIgnoredOnly(Tail(items))

TrackedVerdictNever(items) == ""

\* git.rs 212-220: the first record starting with ! or ? decides the abort.
RECURSIVE TrackedVerdict(_)
TrackedVerdict(items) ==
    IF items = <<>> THEN ""
    ELSE IF Head(items) = "!" THEN "Your test depends on ignored file(s)"
    ELSE IF Head(items) = "?" THEN "Your test depends on untracked file(s)"
    ELSE TrackedVerdict(Tail(items))

\* git.rs 185-221
Tracked(p) ==
    /\ pc[p] = "tracked"
    /\ LET paths == PathSpecs(resources[p])
           next == IF IsSome(setup[p].pack_objects)
                   THEN "local_pack" ELSE "local_map" IN
        IF paths = <<>>
        THEN /\ pc' = [pc EXCEPT ![p] = next]
             /\ UNCHANGED <<why, log>>
        ELSE \E spawned \in BOOLEAN, fatal \in BOOLEAN :
            IF ~spawned
            THEN /\ ~fatal
                 /\ Abort(p, "spawn")
                 /\ UNCHANGED log
            ELSE LET items == StatusRecords(wc[p], paths, fatal)
                     verdict == TrackedVerdict(items) IN
                /\ Logged(p, Event("status-paths", "", "", ~fatal))
                /\ IF verdict = ""
                   THEN /\ pc' = [pc EXCEPT ![p] = next]
                        /\ UNCHANGED why
                   ELSE Abort(p, verdict)
    /\ UNCHANGED <<inputs, fsvars, script, setup, resources, registered, keys,
                   datapath, shallow, cleared, sparse, fsdata, errlog,
                   retried>>

\* Mutant of set_root: the borrowed variable is left as it was.
set_root_keep(path, dir) == dir

\* lib.rs 486-488
set_root(path, dir) == Join(path, dir)

\* Mutant of MapOf: the managed paths are returned as they were registered.
MapOfUnrooted(root, res) ==
    [i \in DOMAIN res.relative_files |-> res.relative_files[i]]

\* lib.rs 383-386 and 430-433: the map of the managed entries.
MapOf(root, res) ==
    [i \in DOMAIN res.relative_files |-> Join(root, res.relative_files[i])]

\* lib.rs 388-391 and 434-437: every borrowed variable rewritten in place.
Rerooted(root, res) ==
    [res EXCEPT !.unmanaged =
        [i \in DOMAIN res.unmanaged |-> set_root(root, res.unmanaged[i])]]

(***************************************************************************)
(* CrateDir::pack_objects (git.rs 223-316).  hash_sparse_oid stores a blob *)
(* made of every simple pathspec followed by NUL; rev-list lists the       *)
(* objects of HEAD that the filter sparse:oid of that blob lets through,   *)
(* then those that blob:none lets through.  git reads the blob as a list   *)
(* of patterns, one per line, a line ending at the first NUL; a pattern    *)
(* without wildcard lets through the file of that name and the files below *)
(* the directory of that name.                                             *)
(***************************************************************************)
\* git.rs 298-301: write!(stdin, "{}\0", path) for every path.
RECURSIVE SparseFilterBlob(_)
SparseFilterBlob(paths) ==
    IF paths = <<>> THEN ""
    ELSE PathSpecDisplay(Head(paths)) \o NulChar
         \o SparseFilterBlob(Tail(paths))

\* The text before the first c of s; s itself without any c.
Before(s, c) ==
    LET at == Positions(s, c) IN
    IF at = {} THEN s
    ELSE SubSeq(s, 1, (CHOOSE i \in at : \A j \in at : i <= j) - 1)

\* The lines of s: the texts between one line feed, or an end, and the next.
Lines(s) ==
    LET cuts == Positions(s, "\n") \cup {0, Len(s) + 1} IN
    {SubSeq(s, a + 1, b - 1) :
        <<a, b>> \in {ab \in cuts \X cuts :
                        /\ ab[1] < ab[2]
                        /\ \A k \in cuts : ~(ab[1] < k /\ k < ab[2])}}

FilterPatterns(blob) == {Before(l, NulChar) : l \in Lines(blob)} \ {""}

IsPrefix(a, b) == Len(a) <= Len(b) /\ SubSeq(b, 1, Len(a)) = a

PatternMatches(pat, path) ==
    \/ pat = PathDisplay(path)
    \/ IsPrefix(pat \o "/", PathDisplay(path))

\* git.rs 256-287: the two lists of rev-list, for the files HEAD holds.
SparseRevList(w, paths) ==
    LET pats == FilterPatterns(SparseFilterBlob(paths))
        held == {x \in DOMAIN w : w[x] \in {"clean", "modified"}} IN
    {Blob(LocalHead, InTree(x)) : x \in
        {y \in held : \E pat \in pats : PatternMatches(pat, InTree(y))}}
    \cup {Skeleton(LocalHead)}

\* git.rs 229-233: the list is made for the simple pathspecs; the complex
\* pathspecs of the filter are not used.
PackInput(w, paths) ==
    SparseRevList(w, PathSpecFilter(paths).simple_filter)

\* lib.rs 377-381 with git.rs 223-316
LocalPack(p) ==
    /\ pc[p] = "local_pack"
    /\ \E outcome \in {"mkdir_err", "git_err", "ok"} :
        /\ packs' = IF outcome = "mkdir_err" THEN packs
                    ELSE IF outcome = "git_err"
                    THEN [packs EXCEPT !.exists = TRUE]
                    ELSE [exists |-> TRUE,
                          objs |-> packs.objs \cup
                                   PackInput(wc[p], PathSpecs(resources[p]))]
        /\ IF outcome = "ok"
           THEN /\ pc' = [pc EXCEPT ![p] = "local_map"]
                /\ Logged(p, Event("pack-objects", LocalHead, "", TRUE))
                /\ UNCHANGED why
           ELSE /\ Abort(p, IF outcome = "mkdir_err" THEN "create_dir_all"
                            ELSE "Git operation was not successful")
                /\ UNCHANGED log
    /\ UNCHANGED <<inputs, lockFile, lockHolder, store, trees, script, setup,
                   resources, registered, keys, datapath, shallow, cleared,
                   sparse, fsdata, errlog, retried>>

\* lib.rs 465-470: FsData::path, the entry at the index the key holds;
\* None stands for the panic of unwrap() on an index out of range.
FsDataPath(map, key) ==
    IF key + 1 \in DOMAIN map THEN Some(map[key + 1]) ELSE None

\* lib.rs 383-391
LocalMap(p) ==
    /\ pc[p] = "local_map"
    /\ fsdata' = [fsdata EXCEPT ![p] =
                    Some(MapOf(setup[p].manifest, resources[p]))]
    /\ resources' = [resources EXCEPT ![p] =
                        Rerooted(setup[p].manifest, resources[p])]
    /\ pc' = [pc EXCEPT ![p] = "done"]
    /\ UNCHANGED <<inputs, fsvars, script, setup, registered, keys, datapath,
                   shallow, cleared, sparse, why, errlog, log, retried>>

(***************************************************************************)
(* Packaged mode (lib.rs 393-438).                                         *)
(***************************************************************************)
DataDir(p) == Unwrap(setup[p].datadir)

\* lib.rs 402
GitPath(p) == Join(DataDir(p), <<"xtest-data-git">>)

NoStore == [exists |-> FALSE, remote |-> None, shallowFile |-> None,
            objs |-> {}]

\* lib.rs 502-512: two hexadecimal digits a byte, the low nibble first.
HexDigit(k) == SubSeq("0123456789abcdef", k + 1, k + 1)

RECURSIVE HexFrom(_, _)
HexFrom(num, i) ==
    IF i > Len(num) THEN ""
    ELSE HexDigit(num[i] % 16) \o HexDigit((num[i] \div 16) % 16)
         \o HexFrom(num, i + 1)

HexName(num) == HexFrom(num, 1)

\* The n-th array of eight bytes the generator can draw.
RandBytes(n) == <<16 + n, 0, 0, 0, 0, 0, 0, 0>>

\* lib.rs 500-515: generate_name
GenerateName(prefix, n) == prefix \o HexName(RandBytes(n))

NewTree(p) == [owner |-> p, worktree |-> FALSE, head |-> "", files |-> {}]

\* lib.rs 491-525: one turn of the loop of unique_dir.  create_dir fails
\* with AlreadyExists when the name is taken (the loop goes on), fails with
\* another error (returned, and build aborts), or creates the directory.
\* Mutant of UniqueDirCreates: an existing directory is taken as created.
UniqueDirCreatesAlways(existing, name) == TRUE

UniqueDirCreates(existing, name) == name \notin existing

\* Mutant of UniqueDir: the name is drawn but no directory is created.
UniqueDirNameOnly(p) ==
    /\ pc[p] = "unique_dir"
    /\ \E n \in 1..NumNames :
        /\ datapath' = [datapath EXCEPT ![p] =
               Some(Join(DataDir(p), <<GenerateName("xtest-data-tree", n)>>))]
        /\ pc' = [pc EXCEPT ![p] =
               IF IsSome(setup[p].pack_objects) THEN "bare" ELSE "consent"]
    /\ UNCHANGED <<inputs, lockFile, lockHolder, store, packs, script, setup,
                   resources, registered, keys, shallow, cleared, sparse,
                   fsdata, errlog, log, why, retried, trees>>

UniqueDir(p) ==
    /\ pc[p] = "unique_dir"
    /\ \E n \in 1..NumNames, ioerr \in BOOLEAN :
        LET d == DataDir(p)
            name == GenerateName("xtest-data-tree", n) IN
        IF ~UniqueDirCreates(DOMAIN trees[d], name)
        THEN /\ ~ioerr
             /\ retried' = [retried EXCEPT ![p] = TRUE]
             /\ UNCHANGED <<pc, why, trees, datapath>>
        ELSE IF ioerr
        THEN /\ Abort(p, "create_dir")
             /\ UNCHANGED <<trees, datapath, retried>>
        ELSE /\ trees' = [trees EXCEPT ![d] = (name :> NewTree(p)) @@ @]
             /\ datapath' = [datapath EXCEPT ![p] = Some(Join(d, <<name>>))]
             /\ pc' = [pc EXCEPT ![p] =
                    IF IsSome(setup[p].pack_objects) THEN "bare" ELSE "consent"]
             /\ UNCHANGED <<why, retried>>
    /\ UNCHANGED <<inputs, lockFile, lockHolder, store, packs, script, setup,
                   resources, registered, keys, shallow, cleared, sparse,
                   fsdata, errlog, log>>

(***************************************************************************)
(* The consent gate (git.rs 50-89).                                        *)
(***************************************************************************)
\* git.rs 61-67: std::env::var with its two errors mapped.
FetchVar(value) ==
    IF ~IsSome(value) THEN None
    ELSE IF Unwrap(value) = NotUnicode THEN Some("no")
    ELSE value

\* Mutants of ConsentGiven: consent unless refused, and consent in any case.
ConsentUnlessNo(var) == var # Some("no")

ConsentGivenAnyCase(var) ==
    var \in {Some("yes"), Some("1"), Some("true"), Some("YES"), Some("True")}

\* Mutant of ConsentGiven: a store that is already there counts as consent.
ConsentGivenOrStored(var) ==
    \/ var \in {Some("yes"), Some("1"), Some("true")}
    \/ \E d \in DataDirs : store[d].exists

\* git.rs 69-70
ConsentGiven(var) == var \in {Some("yes"), Some("1"), Some("true")}

\* git.rs 78-80: one line for each pair of the zipped iterators.
PlanLines(res) ==
    [i \in 1..(IF Len(AsPaths(res)) < Len(PathSpecs(res))
               THEN Len(AsPaths(res)) ELSE Len(PathSpecs(res))) |->
        "  into " \o PathDisplay(AsPaths(res)[i]) \o ": "
                  \o PathSpecDisplay(PathSpecs(res)[i])]

\* git.rs 72-81
Plan(gitpath, tree, url, commit, res) ==
    <<"These tests require additional data from a remote source.",
      "Here is what we planned to do.",
      "Set up bare Git dir in: " \o PathDisplay(gitpath),
      "Git Origin: " \o url,
      "Fetch Commit: " \o commit,
      "Checkout files into: " \o PathDisplay(tree)>>
    \o PlanLines(res)
    \o <<"Explicit consent can be given by setting CARGO_XTEST_DATA_FETCH=1">>

Refusal ==
    "refusing to continue without explicit agreement to network (see error log)."

Consent(p) ==
    /\ pc[p] = "consent"
    /\ IF ConsentGiven(FetchVar(env[p].FETCH))
       THEN /\ cleared' = [cleared EXCEPT ![p] = Some(setup[p].repository)]
            /\ pc' = [pc EXCEPT ![p] = "clone"]
            /\ Logged(p, Event("consent", setup[p].commit_id,
                               setup[p].repository, TRUE))
            /\ UNCHANGED <<why, errlog>>
       ELSE /\ errlog' = [errlog EXCEPT ![p] =
                    @ \o Plan(GitPath(p), Unwrap(datapath[p]),
                              setup[p].repository, setup[p].commit_id,
                              resources[p])]
            /\ Logged(p, Event("consent", setup[p].commit_id,
                               setup[p].repository, FALSE))
            /\ Abort(p, Refusal)
            /\ UNCHANGED cleared
    /\ UNCHANGED <<inputs, fsvars, script, setup, resources, registered, keys,
                   datapath, shallow, sparse, fsdata, retried>>

(***************************************************************************)
(* FileWaitLock (git.rs 529-554): an exclusive advisory lock on the file   *)
(* xtest-data.lock beside the store, taken by every guarded operation and  *)
(* released when the guard goes out of scope.                              *)
(***************************************************************************)
\* git.rs 532-535: the directory that holds the lock file.
LockDir(p) == Parent(GitPath(p))

\* Mutant of LockGranted: the lock is handed out while another holds it.
LockGrantedShared(holder) == TRUE

\* Mutant of Released: the guard is forgotten instead of dropped.
ReleasedNever(holder, p) == holder

\* git.rs 539: lock_exclusive returns once no other handle holds the lock.
LockGranted(holder) == holder = NoProc

\* git.rs 546-554: the lock after the guard of p was dropped.
Released(holder, p) == IF holder = p THEN NoProc ELSE holder

\* The operations that open with FileWaitLock::for_git_dir.
GuardedOps == {"clone", "bare", "fetch", "unpack"}

\* The positions of p at which its guard is in scope.
InGuard ==
    {"clone_cmd", "clone_new", "clone_probe", "clone_drop",
     "bare_cmd", "bare_new", "bare_probe", "bare_shallow", "bare_drop",
     "fetch_cmd", "fetch_drop", "unpack_cmd", "unpack_drop", "unwind"}

\* git.rs 94-96, 127-129, 367, 383: build the handle, then take the lock.
Acquire(p) ==
    /\ pc[p] \in GuardedOps
    /\ LET d == LockDir(p) IN
       \E outcome \in {"create_err", "lock_err", "ok"} :
        IF outcome = "create_err"
        THEN /\ Abort(p, "File::create")
             /\ UNCHANGED <<lockFile, lockHolder>>
        ELSE IF outcome = "lock_err"
        THEN /\ Abort(p, "lock_exclusive")
             /\ lockFile' = [lockFile EXCEPT ![d] = TRUE]
             /\ UNCHANGED lockHolder
        ELSE /\ LockGranted(lockHolder[d])
             /\ lockFile' = [lockFile EXCEPT ![d] = TRUE]
             /\ lockHolder' = [lockHolder EXCEPT ![d] = p]
             /\ pc' = [pc EXCEPT ![p] = pc[p] \o "_cmd"]
             /\ UNCHANGED why
    /\ shallow' = [shallow EXCEPT ![p] = Some(GitPath(p))]
    /\ UNCHANGED <<inputs, store, trees, packs, script, setup, resources,
                   registered, keys, datapath, cleared, sparse, fsdata,
                   errlog, log, retried>>

\* Where build goes on after the guard of an operation was dropped.
AfterDrop(at) ==
    CASE at = "clone_drop" -> "fetch"
      [] at = "fetch_drop" -> "checkout"
      [] at = "bare_drop" -> "unpack"
      [] at = "unpack_drop" -> "checkout"
      [] OTHER -> "aborted"

\* git.rs 546-554: the guard is dropped at the end of the operation and
\* during the unwinding of a panic.  When unlock fails the process aborts;
\* its lock file handle is closed with it.
Drop(p) ==
    /\ pc[p] \in {"clone_drop", "bare_drop", "fetch_drop", "unpack_drop",
                  "unwind"}
    /\ LET d == LockDir(p) IN
       \E unlocked \in BOOLEAN :
        /\ lockHolder' = [lockHolder EXCEPT ![d] = Released(@, p)]
        /\ IF unlocked
           THEN /\ pc' = [pc EXCEPT ![p] = AfterDrop(pc[p])]
                /\ UNCHANGED why
           ELSE Abort(p, "process::abort")
    /\ UNCHANGED <<inputs, lockFile, store, trees, packs, script, setup,
                   resources, registered, keys, datapath, shallow, cleared,
                   sparse, fsdata, errlog, log, retried>>

\* inconclusive() called while the guard is in scope: the panic unwinds.
Unwind(p, msg) ==
    /\ pc' = [pc EXCEPT ![p] = "unwind"]
    /\ why' = [why EXCEPT ![p] = msg]

(***************************************************************************)
(* Git::shallow_clone (git.rs 93-122).  Only a failure to spawn aborts:    *)
(* the exit status of the child is not looked at.                          *)
(***************************************************************************)
\* Mutant of Found: the store is taken for missing whatever is on disk.
FoundNever(st) == FALSE

\* git.rs 98, 131: repo.path.exists().
Found(st) == st.exists

\* git.rs 98-114, 131-137: the arguments of the command are chosen by the
\* existence test of the store path, made with the guard in scope.
StoreTest(p) ==
    /\ pc[p] \in {"clone_cmd", "bare_cmd"}
    /\ LET op == IF pc[p] = "clone_cmd" THEN "clone" ELSE "bare" IN
       pc' = [pc EXCEPT ![p] = IF Found(store[DataDir(p)])
                                THEN op \o "_probe"
                                ELSE op \o "_new"]
    /\ UNCHANGED <<inputs, lockFile, lockHolder, store, trees, packs, script,
                   setup, resources, registered, keys, datapath, shallow,
                   cleared, sparse, fsdata, errlog, log, why, retried>>

ClonedStore(url) ==
    [exists |-> TRUE, remote |-> Some(url), shallowFile |-> Some(RemoteHead),
     objs |-> {Skeleton(RemoteHead)}]

CloneExec(p) ==
    /\ pc[p] \in {"clone_new", "clone_probe"}
    /\ LET d == DataDir(p)
           url == Unwrap(cleared[p]) IN
       \E spawned \in BOOLEAN, ok \in BOOLEAN :
        IF ~spawned
        THEN /\ Unwind(p, "spawn")
             /\ UNCHANGED <<store, log>>
        ELSE /\ IF pc[p] = "clone_new"
                THEN /\ Logged(p, Event("clone", "", url, ok))
                     /\ store' = IF ok
                                 THEN [store EXCEPT ![d] = ClonedStore(url)]
                                 ELSE store
                ELSE /\ Logged(p, Event("symbolic-ref", "", "", ok))
                     /\ UNCHANGED store
             /\ pc' = [pc EXCEPT ![p] = "clone_drop"]
             /\ UNCHANGED why
    /\ UNCHANGED <<inputs, lockFile, lockHolder, trees, packs, script, setup,
                   resources, registered, keys, datapath, shallow, cleared,
                   sparse, fsdata, errlog, retried>>

(***************************************************************************)
(* Git::bare (git.rs 126-147).                                             *)
(***************************************************************************)
BareExec(p) ==
    /\ pc[p] \in {"bare_new", "bare_probe"}
    /\ LET d == DataDir(p) IN
       \E spawned \in BOOLEAN, ok \in BOOLEAN :
        IF ~spawned
        THEN /\ Unwind(p, "spawn")
             /\ UNCHANGED <<store, log>>
        ELSE /\ IF pc[p] = "bare_new"
                THEN /\ Logged(p, Event("init", "", "", ok))
                     /\ store' = IF ok
                                 THEN [store EXCEPT ![d].exists = TRUE]
                                 ELSE store
                ELSE /\ Logged(p, Event("symbolic-ref", "", "", ok))
                     /\ UNCHANGED store
             /\ pc' = [pc EXCEPT ![p] = "bare_shallow"]
             /\ UNCHANGED why
    /\ UNCHANGED <<inputs, lockFile, lockHolder, trees, packs, script, setup,
                   resources, registered, keys, datapath, shallow, cleared,
                   sparse, fsdata, errlog, retried>>

\* Mutant of BareTarget: a marker that is already in the store is kept.
BareTargetKept(p) ==
    IF IsSome(store[DataDir(p)].shallowFile)
    THEN Unwrap(store[DataDir(p)].shallowFile)
    ELSE setup[p].commit_id

\* git.rs 143-144: write the pinned commit into <store>/shallow.
BareTarget(p) == setup[p].commit_id

BareShallow(p) ==
    /\ pc[p] = "bare_shallow"
    /\ LET d == DataDir(p) IN
       \E ioerr \in BOOLEAN :
        IF ioerr \/ ~store[d].exists
        THEN /\ Unwind(p, "fs::write")
             /\ UNCHANGED store
        ELSE /\ store' = [store EXCEPT ![d].shallowFile = Some(BareTarget(p))]
             /\ pc' = [pc EXCEPT ![p] = "bare_drop"]
             /\ UNCHANGED why
    /\ Logged(p, Event("write-shallow", BareTarget(p), "", pc'[p] = "bare_drop"))
    /\ UNCHANGED <<inputs, lockFile, lockHolder, trees, packs, script, setup,
                   resources, registered, keys, datapath, shallow, cleared,
                   sparse, fsdata, errlog, retried>>

(***************************************************************************)
(* ShallowBareRepository::fetch (git.rs 366-380).                          *)
(***************************************************************************)
\* Mutant of FetchTarget: fetch what the remote's default branch points at.
FetchRemoteHead(p) == RemoteHead

\* git.rs 372: the commit handed to `git fetch`.
FetchTarget(p) == setup[p].commit_id

FetchExec(p) ==
    /\ pc[p] = "fetch_cmd"
    /\ LET d == DataDir(p)
           url == Unwrap(cleared[p])
           head == FetchTarget(p) IN
       \E spawned \in BOOLEAN, ok \in BOOLEAN :
        IF ~spawned
        THEN /\ Unwind(p, "spawn")
             /\ UNCHANGED <<store, log>>
        ELSE IF ok /\ store[d].exists
        THEN /\ Logged(p, Event("fetch", head, url, TRUE))
             /\ store' = [store EXCEPT ![d].objs = @ \cup {Skeleton(head)}]
             /\ pc' = [pc EXCEPT ![p] = "fetch_drop"]
             /\ UNCHANGED why
        ELSE /\ Logged(p, Event("fetch", head, url, FALSE))
             /\ Unwind(p, "Git operation was not successful")
             /\ UNCHANGED store
    /\ UNCHANGED <<inputs, lockFile, lockHolder, trees, packs, script, setup,
                   resources, registered, keys, datapath, shallow, cleared,
                   sparse, fsdata, errlog, retried>>

(***************************************************************************)
(* ShallowBareRepository::unpack (git.rs 382-415): every entry of the      *)
(* directory whose name ends in pack is streamed into unpack-objects.      *)
(***************************************************************************)
UnpackExec(p) ==
    /\ pc[p] = "unpack_cmd"
    /\ LET d == DataDir(p) IN
       \E ok \in BOOLEAN :
        IF ~packs.exists
        THEN /\ ok
             /\ Unwind(p, "read_dir")
             /\ UNCHANGED <<store, log>>
        ELSE IF packs.objs = {}
        THEN /\ ok
             /\ pc' = [pc EXCEPT ![p] = "unpack_drop"]
             /\ UNCHANGED <<store, log, why>>
        ELSE IF ok /\ store[d].exists
        THEN /\ Logged(p, Event("unpack-objects", "", "", TRUE))
             /\ store' = [store EXCEPT ![d].objs = @ \cup packs.objs]
             /\ pc' = [pc EXCEPT ![p] = "unpack_drop"]
             /\ UNCHANGED why
        ELSE /\ Logged(p, Event("unpack-objects", "", "", FALSE))
             /\ Unwind(p, "Git operation was not successful")
             /\ UNCHANGED store
    /\ UNCHANGED <<inputs, lockFile, lockHolder, trees, packs, script, setup,
                   resources, registered, keys, datapath, shallow, cleared,
                   sparse, fsdata, errlog, retried>>

(***************************************************************************)
(* ShallowBareRepository::checkout and checkout_fallback_slow              *)
(* (git.rs 420-526).  No guard is taken by either.  A command that needs   *)
(* objects the store lacks asks the remote the store was cloned from; a    *)
(* store without a remote makes the command fail.                          *)
(***************************************************************************)
\* lib.rs 424-429: the commit handed to checkout.
CheckoutTarget(p) == setup[p].commit_id

\* The result of a command of p that needs the objects `need`.
GitRun(p, op, need, gitok, netok) ==
    LET st == store[DataDir(p)]
        have == need \subseteq st.objs
        lazy == st.exists /\ ~have /\ IsSome(st.remote)
        ok == gitok /\ st.exists /\ (have \/ (lazy /\ netok)) IN
    [ok |-> ok,
     events |-> (IF lazy
                 THEN <<Event("lazy-fetch", CheckoutTarget(p),
                              Unwrap(st.remote), netok)>>
                 ELSE <<>>)
                \o <<Event(op, CheckoutTarget(p), "", ok)>>,
     objs |-> IF ok THEN st.objs \cup need ELSE st.objs]

TreeName(p) == Unwrap(datapath[p])[Len(Unwrap(datapath[p]))]

\* git.rs 427-442: collect the filter, then `worktree add --no-checkout`.
WorktreeAdd(p) ==
    /\ pc[p] = "checkout"
    /\ LET d == DataDir(p)
           head == CheckoutTarget(p) IN
       \E spawned \in BOOLEAN, gitok \in BOOLEAN, netok \in BOOLEAN :
        LET r == GitRun(p, "worktree-add", {Skeleton(head)}, gitok, netok) IN
        IF ~spawned
        THEN /\ gitok /\ netok
             /\ Abort(p, "spawn")
             /\ UNCHANGED <<store, trees, log>>
        ELSE /\ log' = [log EXCEPT ![p] = @ \o r.events]
             /\ store' = [store EXCEPT ![d].objs = r.objs]
             /\ IF r.ok
                THEN /\ trees' = [trees EXCEPT ![d][TreeName(p)] =
                            [@ EXCEPT !.worktree = TRUE, !.head = head]]
                     /\ pc' = [pc EXCEPT ![p] = "sparse_set"]
                     /\ UNCHANGED why
                ELSE /\ Abort(p, "Git operation was not successful")
                     /\ UNCHANGED trees
    /\ sparse' = [sparse EXCEPT ![p] = PathSpecFilter(PathSpecs(resources[p]))]
    /\ UNCHANGED <<inputs, lockFile, lockHolder, packs, script, setup,
                   resources, registered, keys, datapath, shallow, cleared,
                   fsdata, errlog, retried>>

\* A command and what the driver wrote to its standard input.
EventFed(op, commit, ok, stdin) ==
    [op |-> op, commit |-> commit, url |-> "", ok |-> ok, stdin |-> stdin]

\* git.rs 454-460: one line for every simple pathspec, its path as it is.
SparseLines(filter) ==
    [i \in DOMAIN filter.simple_filter |->
        PathDisplay(filter.simple_filter[i]) \o "\n"]

\* git.rs 446-476: `sparse-checkout set --stdin` fed the simple paths; any
\* failure of it selects the fallback with every pathspec.
SparseSet(p) ==
    /\ pc[p] = "sparse_set"
    /\ \E works \in BOOLEAN :
        /\ Logged(p, EventFed("sparse-checkout", "", works,
                               SparseLines(sparse[p])))
        /\ pc' = [pc EXCEPT ![p] =
                    IF works THEN "checkout_force" ELSE "fallback_all"]
        /\ errlog' = IF works THEN errlog
                     ELSE [errlog EXCEPT ![p] = Append(@,
             "Version of Git appears to not support sparse-checkout: other")]
    /\ UNCHANGED <<inputs, fsvars, script, setup, resources, registered, keys,
                   datapath, shallow, cleared, sparse, fsdata, why, retried>>

\* git.rs 478-492: `checkout --force <commit>` under the sparse patterns.
CheckoutForce(p) ==
    /\ pc[p] = "checkout_force"
    /\ LET d == DataDir(p)
           head == CheckoutTarget(p)
           files == Range(sparse[p].simple_filter) \cap TreePaths IN
       \E spawned \in BOOLEAN, gitok \in BOOLEAN, netok \in BOOLEAN :
        LET r == GitRun(p, "checkout", {Blob(head, x) : x \in files},
                        gitok, netok) IN
        IF ~spawned
        THEN /\ gitok /\ netok
             /\ Abort(p, "spawn")
             /\ UNCHANGED <<store, trees, log>>
        ELSE /\ log' = [log EXCEPT ![p] = @ \o r.events]
             /\ store' = [store EXCEPT ![d].objs = r.objs]
             /\ IF r.ok
                THEN /\ trees' = [trees EXCEPT ![d][TreeName(p)].files =
                                    @ \cup files]
                     /\ pc' = [pc EXCEPT ![p] = "fallback_complex"]
                     /\ UNCHANGED why
                ELSE /\ Abort(p, "Git operation was not successful")
                     /\ UNCHANGED trees
    /\ UNCHANGED <<inputs, lockFile, lockHolder, packs, script, setup,
                   resources, registered, keys, datapath, shallow, cleared,
                   sparse, fsdata, errlog, retried>>

\* The pathspecs streamed to the fallback: all of them after a failed
\* sparse attempt (git.rs 474-475), the complex ones otherwise (git.rs 492).
FallbackPaths(at, filter) ==
    IF at = "fallback_all"
    THEN filter.simple_filter \o filter.complex_paths
    ELSE filter.complex_paths

\* git.rs 514-517: every pathspec followed by NUL.
PathSpecRecords(paths) ==
    [i \in DOMAIN paths |-> PathSpecDisplay(paths[i]) \o NulChar]

\* The events of a command, the last of them the command itself, with what
\* was written to its standard input.
FedTo(events, paths) ==
    [i \in DOMAIN events |->
        IF i = Len(events)
        THEN EventFed(events[i].op, events[i].commit, events[i].ok,
                      PathSpecRecords(paths))
        ELSE events[i]]

\* git.rs 498-526: `checkout --no-guess --force --pathspec-from-file=-`.
\* A pathspec that matches no file of the commit makes git fail; without
\* any pathspec git checks the commit out as the worktree is configured.
FallbackSlow(p) ==
    /\ pc[p] \in {"fallback_all", "fallback_complex"}
    /\ LET d == DataDir(p)
           head == CheckoutTarget(p)
           paths == FallbackPaths(pc[p], sparse[p])
           files == IF paths # <<>> THEN Range(paths) \cap TreePaths
                    ELSE IF pc[p] = "fallback_all" THEN TreePaths
                    ELSE {} IN
       \E spawned \in BOOLEAN, gitok \in BOOLEAN, netok \in BOOLEAN :
        LET r == GitRun(p, "checkout-pathspec",
                        {Blob(head, x) : x \in files},
                        gitok /\ Range(paths) \subseteq TreePaths, netok) IN
        IF ~spawned
        THEN /\ gitok /\ netok
             /\ Abort(p, "spawn")
             /\ UNCHANGED <<store, trees, log>>
        ELSE /\ log' = [log EXCEPT ![p] = @ \o FedTo(r.events, paths)]
             /\ store' = [store EXCEPT ![d].objs = r.objs]
             /\ IF r.ok
                THEN /\ trees' = [trees EXCEPT ![d][TreeName(p)].files =
                                    @ \cup files]
                     /\ pc' = [pc EXCEPT ![p] = "rewrite"]
                     /\ UNCHANGED why
                ELSE /\ Abort(p, "Git operation was not successful")
                     /\ UNCHANGED trees
    /\ UNCHANGED <<inputs, lockFile, lockHolder, packs, script, setup,
                   resources, registered, keys, datapath, shallow, cleared,
                   sparse, fsdata, errlog, retried>>

\* lib.rs 430-437
PackagedMap(p) ==
    /\ pc[p] = "rewrite"
    /\ fsdata' = [fsdata EXCEPT ![p] =
                    Some(MapOf(Unwrap(datapath[p]), resources[p]))]
    /\ resources' = [resources EXCEPT ![p] =
                        Rerooted(Unwrap(datapath[p]), resources[p])]
    /\ pc' = [pc EXCEPT ![p] = "done"]
    /\ UNCHANGED <<inputs, fsvars, script, setup, registered, keys, datapath,
                   shallow, cleared, sparse, why, errlog, log, retried>>

(***************************************************************************)
(* Initial states: the invocations that will run, what each is started     *)
(* with, and an empty set of data directories.                             *)
(***************************************************************************)
SeqsUpTo(S, n) == UNION {[1..k -> S] : k \in 0..n}

OptsDefault ==
    [pkg_repository |-> PkgUrl, manifest_dir |-> Manifest,
     target_tmpdir |-> Some(TmpA)]

EnvDefault ==
    [FETCH |-> None, ORIGIN |-> None, XTMP |-> None, TMPDIR |-> None,
     PACK |-> None, VCSINFO |-> None]

\* The pin file: whether the path exists, can be read, holds JSON text,
\* and the document the text stands for.
PinFile(doc) ==
    [exists |-> TRUE, readable |-> TRUE, parses |-> TRUE, doc |-> doc]

PinAbsent ==
    [exists |-> FALSE, readable |-> FALSE, parses |-> FALSE, doc |-> JNumber]

\* What `cargo package` writes: {"git": {"sha1": ...}}.
PinOk(sha1) == PinFile(JObject("git" :> JObject("sha1" :> JString(sha1))))

\* A working copy: what `git status` knows of each path a test may name.
\* tests/data.zip and tests/a<newline>b are files in the given states, no
\* file is at tests/missing.bin, and a pathspec made of an absolute path or
\* of a path leaving the repository names nothing inside it.
WorkingCopy(rel, nl) ==
    [x \in PathInputs |->
        IF x = RelPath THEN rel
        ELSE IF x = NlPath THEN nl
        ELSE IF x = MissingPath THEN "absent"
        ELSE "outside"]

WcClean == WorkingCopy("clean", "clean")

NoScript == [adds |-> <<>>, rewrites |-> <<>>]

FetchValues ==
    {None, Some("yes"), Some("1"), Some("true"), Some("YES"), Some("True"),
     Some("no"), Some(""), Some(NotUnicode)}

PinShas == {CommitA, " " \o CommitA \o "\n", "\t" \o CommitB, ShortId}

NoPacks == [exists |-> FALSE, objs |-> {}]
EmptyPacks == [exists |-> TRUE, objs |-> {}]
FullPacks ==
    [exists |-> TRUE, objs |-> {Skeleton(CommitA), Blob(CommitA, RelPath)}]

\* The resolver's part of the initial state.
InitResolver(on) ==
    /\ pc = [p \in Procs |-> IF p \in on THEN "start" ELSE "off"]
    /\ setup = [p \in Procs |-> NoSetup]
    /\ resources = [p \in Procs |-> NoResources]
    /\ registered = [p \in Procs |-> [managed |-> <<>>, borrowed |-> <<>>]]
    /\ keys = [p \in Procs |-> <<>>]
    /\ datapath = [p \in Procs |-> None]
    /\ shallow = [p \in Procs |-> None]
    /\ cleared = [p \in Procs |-> None]
    /\ sparse = [p \in Procs |-> NoFilter]
    /\ fsdata = [p \in Procs |-> None]
    /\ why = [p \in Procs |-> ""]
    /\ errlog = [p \in Procs |-> <<>>]
    /\ log = [p \in Procs |-> <<>>]
    /\ retried = [p \in Procs |-> FALSE]
    /\ lockFile = [d \in DataDirs |-> FALSE]
    /\ lockHolder = [d \in DataDirs |-> NoProc]
    /\ store = [d \in DataDirs |-> NoStore]
    /\ trees = [d \in DataDirs |-> [n \in {} |-> NewTree(NoProc)]]

\* The orchestrator has no archive call under way.
XtOff == [phase |-> "off"]

\* The part of the initial state that every specification of the resolver
\* shares.
InitRun(on) ==
    /\ InitResolver(on)
    /\ xt = XtOff

\* One invocation in a working copy of the crate (no pin file).
InitLocal ==
    /\ InitRun({"A"})
    /\ opts = [p \in Procs |-> OptsDefault]
    /\ \E pack \in {None, Some(PackDir)} :
        env = [p \in Procs |-> [EnvDefault EXCEPT !.PACK = pack]]
    /\ pin = [p \in Procs |-> PinAbsent]
    /\ gitBin = [p \in Procs |-> TRUE]
    /\ \E rel \in {"clean", "modified", "untracked", "ignored"} :
        wc = [p \in Procs |-> WorkingCopy(rel, "clean")]
    /\ \E adds \in SeqsUpTo(PathInputs, MaxEntries),
          items \in SeqsUpTo(PathInputs, MaxEntries) :
        script = [p \in Procs |->
            IF p = "A"
            THEN [adds |-> adds,
                  rewrites |-> IF items = <<>> THEN <<>> ELSE <<items>>]
            ELSE NoScript]
    /\ packs = NoPacks

\* One invocation in an unpacked source archive (pin file present).
InitPackaged ==
    /\ InitRun({"A"})
    /\ opts = [p \in Procs |-> OptsDefault]
    /\ \E fetch \in FetchValues, pack \in {None, Some(PackDir)} :
        /\ IsSome(pack) => fetch \in {None, Some("yes")}
        /\ env = [p \in Procs |->
                    [EnvDefault EXCEPT !.FETCH = fetch, !.PACK = pack]]
    /\ \E sha1 \in PinShas : pin = [p \in Procs |-> PinOk(sha1)]
    /\ gitBin = [p \in Procs |-> TRUE]
    /\ wc = [p \in Procs |-> WcClean]
    /\ \E adds \in SeqsUpTo({RelPath, NlPath, AbsPath, MissingPath}, MaxEntries),
          items \in SeqsUpTo({RelPath, NlPath}, MaxEntries) :
        script = [p \in Procs |->
            IF p = "A"
            THEN [adds |-> adds,
                  rewrites |-> IF items = <<>> THEN <<>> ELSE <<items>>]
            ELSE NoScript]
    /\ packs \in {NoPacks, EmptyPacks, FullPacks}

\* Two invocations of unpacked source archives sharing one data directory.
InitShared ==
    /\ InitRun(Procs)
    /\ opts = [p \in Procs |-> OptsDefault]
    /\ \E a \in {[EnvDefault EXCEPT !.FETCH = Some("yes")],
                  [EnvDefault EXCEPT !.PACK = Some(PackDir)]},
          b \in {[EnvDefault EXCEPT !.FETCH = Some("yes")],
                  [EnvDefault EXCEPT !.PACK = Some(PackDir)],
                  EnvDefault} :
        env = [p \in Procs |-> IF p = "A" THEN a ELSE b]
    /\ pin = [p \in Procs |-> PinOk(CommitA)]
    /\ gitBin = [p \in Procs |-> TRUE]
    /\ wc = [p \in Procs |-> WcClean]
    /\ script = [p \in Procs |->
                    IF p = "A" THEN [adds |-> <<RelPath>>, rewrites |-> <<>>]
                    ELSE [adds |-> <<>>, rewrites |-> <<<<RelPath>>>>]]
    /\ packs \in {EmptyPacks, FullPacks}

\* Two invocations of one data directory whose pin files name different
\* commits: "A" is given a pack, "B" a pack or the consent to fetch.
InitPins ==
    /\ InitRun(Procs)
    /\ opts = [p \in Procs |-> OptsDefault]
    /\ \E b \in {[EnvDefault EXCEPT !.FETCH = Some("yes")],
                  [EnvDefault EXCEPT !.PACK = Some(PackDir)]} :
        env = [p \in Procs |->
                  IF p = "A" THEN [EnvDefault EXCEPT !.PACK = Some(PackDir)]
                  ELSE b]
    /\ pin = [p \in Procs |->
                  IF p = "A" THEN PinOk(CommitA) ELSE PinOk(CommitB)]
    /\ gitBin = [p \in Procs |-> TRUE]
    /\ wc = [p \in Procs |-> WcClean]
    /\ script = [p \in Procs |->
                    IF p = "A" THEN [adds |-> <<RelPath>>, rewrites |-> <<>>]
                    ELSE [adds |-> <<>>, rewrites |-> <<<<RelPath>>>>]]
    /\ packs = FullPacks

\* Two invocations of one data directory that register nothing: "A" is
\* given a pack, "B" the consent to fetch.
InitFair ==
    /\ InitRun(Procs)
    /\ opts = [p \in Procs |-> OptsDefault]
    /\ env = [p \in Procs |->
                  IF p = "A" THEN [EnvDefault EXCEPT !.PACK = Some(PackDir)]
                  ELSE [EnvDefault EXCEPT !.FETCH = Some("yes")]]
    /\ pin = [p \in Procs |-> PinOk(CommitA)]
    /\ gitBin = [p \in Procs |-> TRUE]
    /\ wc = [p \in Procs |-> WcClean]
    /\ script = [p \in Procs |-> NoScript]
    /\ packs = FullPacks

\* One invocation, in either mode, that calls add() up to MaxAdds times.
InitRegistry ==
    /\ InitRun({"A"})
    /\ opts = [p \in Procs |-> OptsDefault]
    /\ \E e \in {[EnvDefault EXCEPT !.FETCH = Some("yes")],
                  [EnvDefault EXCEPT !.PACK = Some(PackDir)]} :
        env = [p \in Procs |-> e]
    /\ \E pn \in {PinAbsent, PinOk(CommitA)} : pin = [p \in Procs |-> pn]
    /\ gitBin = [p \in Procs |-> TRUE]
    /\ wc = [p \in Procs |-> WcClean]
    /\ \E adds \in SeqsUpTo({RelPath, NlPath}, MaxAdds),
          rewrites \in {<<>>, <<<<RelPath>>>>} :
        script = [p \in Procs |->
            IF p = "A" THEN [adds |-> adds, rewrites |-> rewrites]
            ELSE NoScript]
    /\ packs = FullPacks

\* Pin files of every shape _setup tells apart.
PinUnreadable ==
    [exists |-> TRUE, readable |-> FALSE, parses |-> FALSE, doc |-> JNumber]

PinNotJson ==
    [exists |-> TRUE, readable |-> TRUE, parses |-> FALSE, doc |-> JNumber]

\* A well-formed pin with fields beside git.sha1, a sha1 of its own at the
\* top of the document among them.
PinWithExtras(sha1) ==
    PinFile(JObject(("git" :> JObject(("sha1" :> JString(sha1))
                                      @@ ("dirty" :> JNumber)))
                    @@ ("path_in_vcs" :> JString(""))
                    @@ ("sha1" :> JString(CommitB))))

SetupPins ==
    {PinAbsent, PinUnreadable, PinNotJson,
     PinFile(JNumber),
     PinFile(JObject(<<>>)),
     PinFile(JObject("git" :> JString(CommitA))),
     PinFile(JObject("git" :> JObject("dirty" :> JNumber))),
     PinFile(JObject("git" :> JObject("sha1" :> JNumber))),
     PinOk(ShortId),
     PinOk(" " \o ShortId),
     PinOk(WideId),
     PinOk(CommitA),
     PinWithExtras(CommitA \o "\n")}

\* One invocation started with every combination of pin file, temporary
\* directories and git binary.
InitSetup ==
    /\ InitRun({"A"})
    /\ \E target \in {None, Some(TmpA)} :
        opts = [p \in Procs |-> [OptsDefault EXCEPT !.target_tmpdir = target]]
    /\ \E e \in {[EnvDefault EXCEPT !.FETCH = Some("yes")],
                  [EnvDefault EXCEPT !.PACK = Some(PackDir)]},
          xtmp \in {None, Some(TmpB)}, tmpdir \in {None, Some(TmpC)} :
        env = [p \in Procs |-> [e EXCEPT !.XTMP = xtmp, !.TMPDIR = tmpdir]]
    /\ \E pn \in SetupPins : pin = [p \in Procs |-> pn]
    /\ gitBin \in [Procs -> BOOLEAN]
    /\ gitBin["B"]
    /\ wc = [p \in Procs |-> WcClean]
    /\ script = [p \in Procs |->
                    IF p = "A"
                    THEN [adds |-> <<RelPath>>, rewrites |-> <<<<NlPath>>>>]
                    ELSE NoScript]
    /\ packs = FullPacks

\* One invocation started with every combination of compile-time URL and
\* CARGO_XTEST_DATA_REPOSITORY_ORIGIN, in a working copy or an archive.
OriginValues == {None, Some(""), Some(MirrorUrl)}

InitOrigin ==
    /\ InitRun({"A"})
    /\ \E url \in {"", PkgUrl} :
        opts = [p \in Procs |-> [OptsDefault EXCEPT !.pkg_repository = url]]
    /\ \E origin \in OriginValues,
          e \in {[EnvDefault EXCEPT !.FETCH = Some("yes")],
                  [EnvDefault EXCEPT !.PACK = Some(PackDir)]} :
        env = [p \in Procs |-> [e EXCEPT !.ORIGIN = origin]]
    /\ \E pn \in {PinAbsent, PinOk(CommitA), PinOk(ShortId)} :
        pin = [p \in Procs |-> pn]
    /\ gitBin = [p \in Procs |-> TRUE]
    /\ wc = [p \in Procs |-> WcClean]
    /\ script = [p \in Procs |->
                    IF p = "A"
                    THEN [adds |-> <<RelPath>>, rewrites |-> <<<<NlPath>>>>]
                    ELSE NoScript]
    /\ packs = FullPacks

\* Two runs of one unpacked archive started in the same environment, each
\* with a data directory of its own.
InitEnv ==
    /\ InitRun(Procs)
    /\ opts = [p \in Procs |->
                [OptsDefault EXCEPT
                    !.target_tmpdir = IF p = "A" THEN Some(TmpA)
                                      ELSE Some(TmpB)]]
    /\ \E e \in {EnvDefault,
                  [EnvDefault EXCEPT !.FETCH = Some("yes")],
                  [EnvDefault EXCEPT !.PACK = Some(PackDir)]} :
        env = [p \in Procs |-> e]
    /\ pin = [p \in Procs |-> PinOk(CommitA)]
    /\ gitBin = [p \in Procs |-> TRUE]
    /\ wc = [p \in Procs |-> WcClean]
    /\ script = [p \in Procs |->
                    [adds |-> <<RelPath>>, rewrites |-> <<<<RelPath>>>>]]
    /\ packs = FullPacks

\* The orchestrator's two passes over one crate: run "A" is the test run of
\* the pack pass in the clean working copy, run "B" the test run of the
\* test pass in the unpacked archive, whose pin names the HEAD that
\* `cargo package` saw.  Both run the same test.
InitRoundTrip ==
    /\ InitRun({})
    /\ opts = [p \in Procs |-> OptsDefault]
    /\ env = [p \in Procs |->
                IF p = "A" THEN [EnvDefault EXCEPT !.PACK = Some(PackDir)]
                ELSE EnvDefault]
    /\ pin = [p \in Procs |-> IF p = "A" THEN PinAbsent ELSE PinOk(LocalHead)]
    /\ gitBin = [p \in Procs |-> TRUE]
    /\ wc = [p \in Procs |-> WcClean]
    /\ \E adds \in SeqsUpTo({RelPath, NlPath}, MaxEntries),
          items \in SeqsUpTo({RelPath, NlPath}, MaxEntries) :
        script = [p \in Procs |->
            [adds |-> adds,
             rewrites |-> IF items = <<>> THEN <<>> ELSE <<items>>]]
    /\ packs = NoPacks

(***************************************************************************)
(* The orchestrator's archive of a pack directory                          *)
(* (xtask/src/task/pack_archive.rs, xtask/src/util.rs).  pack pipes the    *)
(* output of `tar --create` through `gzip -c` into tmp/artifact.tar.gz;    *)
(* unpack pipes the output of `gunzip -c` into `tar --extract` under       *)
(* tmp/artifacts.  A stream is a sequence of units; a pipe holds PipeCap   *)
(* units, a writer to a full pipe waits, a reader of an empty one waits.   *)
(***************************************************************************)
MaxData == 2

PipeCap == 2

ArchiveOrder == <<"xtest-data.idx", "xtest-data.pack">>

DataUnits == {0, 1}

\* The directories: some of the names, each a file of up to MaxData units.
PackDirs ==
    UNION {[S -> SeqsUpTo(DataUnits, MaxData)] : S \in SUBSET Range(ArchiveOrder)}

EmptyDir == [n \in {} |-> <<>>]

Unit(t, name, n) == [t |-> t, name |-> name, n |-> n]

\* tar --create: the directory itself, then a header and the data of every
\* file, then the end-of-archive marker.
TarEntry(name, data) ==
    <<Unit("hdr", name, Len(data))>>
    \o [i \in 1..Len(data) |-> Unit("data", "", data[i])]

RECURSIVE TarEntries(_, _)
TarEntries(dir, names) ==
    IF names = <<>> THEN <<>>
    ELSE (IF Head(names) \in DOMAIN dir
          THEN TarEntry(Head(names), dir[Head(names)])
          ELSE <<>>)
         \o TarEntries(dir, Tail(names))

TarCreate(dir) ==
    <<Unit("dir", ".", 0)>> \o TarEntries(dir, ArchiveOrder)
    \o <<Unit("end", "", 0)>>

\* tar --extract: None for a stream that is no archive.
RECURSIVE TarExtractFrom(_, _)
TarExtractFrom(s, dir) ==
    IF s = <<>> THEN None
    ELSE LET h == Head(s) IN
         IF h.t = "end" THEN Some(dir)
         ELSE IF h.t = "dir" THEN TarExtractFrom(Tail(s), dir)
         ELSE IF /\ h.t = "hdr"
                 /\ Len(s) > h.n
                 /\ \A i \in 2..(h.n + 1) : s[i].t = "data"
         THEN TarExtractFrom(SubSeq(s, h.n + 2, Len(s)),
                             (h.name :> [i \in 1..h.n |-> s[i + 1].n]) @@ dir)
         ELSE None

TarExtract(s) == TarExtractFrom(s, EmptyDir)

\* gzip -c: a header, every unit deflated, a trailer with the unit count.
GzHead == Unit("gz", "", 0)

GzUnit(u) == Unit("z:" \o u.t, u.name, u.n)

GzTail(n) == Unit("crc", "", n)

\* gunzip -c: the inflated units; nothing for a stream that is no gzip file.
Gunzip(s) ==
    IF /\ Len(s) >= 2
       /\ s[1] = GzHead
       /\ s[Len(s)] = GzTail(Len(s) - 2)
       /\ \A i \in 2..(Len(s) - 1) :
            Len(s[i].t) > 2 /\ SubSeq(s[i].t, 1, 2) = "z:"
    THEN [i \in 1..(Len(s) - 2) |->
            Unit(SubSeq(s[i + 1].t, 3, Len(s[i + 1].t)),
                 s[i + 1].name, s[i + 1].n)]
    ELSE <<>>

\* util.rs 80-95, GoodOutput::input_output: the child is spawned with both
\* ends piped; the parent writes the input, drops stdin, then collects
\* stdout until the child has exited.
IoStart(kind, input) ==
    [kind |-> kind, toWrite |-> input, stdin |-> <<>>, closed |-> FALSE,
     pending |-> IF kind = "gzip" THEN <<GzHead>> ELSE <<>>,
     stdout |-> <<>>, got |-> <<>>, fin |-> FALSE, sink |-> <<>>]

NoIo == IoStart("none", <<>>)

ChildEmit(kind, u) == IF kind = "gzip" THEN <<GzUnit(u)>> ELSE <<>>

ChildTrailer(io) ==
    IF io.kind = "gzip" THEN <<GzTail(Len(io.sink))>> ELSE <<>>

IoDone(io) ==
    /\ io.closed
    /\ io.fin
    /\ io.pending = <<>>
    /\ io.stdout = <<>>

\* The state of the orchestrator before pack() is called on the directory.
XtStart(method, dir, artifacts) ==
    [phase |-> "pack", method |-> method, dir |-> dir, had |-> artifacts,
     artifacts |-> artifacts, artifact |-> None, io |-> NoIo,
     packed |-> "", unpacked |-> ""]

resolver ==
    <<pc, opts, env, pin, gitBin, wc, script, setup, resources, registered,
      keys, datapath, shallow, cleared, sparse, fsdata, why, errlog, log,
      lockFile, lockHolder, store, trees, packs, retried>>

\* pack_archive.rs 40-59: the target's method, `tar --create` (fed nothing),
\* and the spawn of `gzip -c` fed the tar stream.
PackCall ==
    /\ xt.phase = "pack"
    /\ xt' = IF xt.method = None
             THEN [xt EXCEPT !.phase = "pack_err",
                             !.packed = "NoPackSpecification"]
             ELSE [xt EXCEPT !.phase = "gzip",
                             !.io = IoStart("gzip", TarCreate(xt.dir))]
    /\ UNCHANGED resolver

InIo == xt.phase \in {"gzip", "untar"}

\* util.rs 86: the one write of the parent, which returns when the pipe has
\* taken all of the input.
IoWrite ==
    /\ InIo
    /\ xt.io.toWrite # <<>>
    /\ Len(xt.io.stdin) < PipeCap
    /\ xt' = [xt EXCEPT !.io.stdin = Append(@, Head(xt.io.toWrite)),
                        !.io.toWrite = Tail(@)]
    /\ UNCHANGED resolver

\* util.rs 88: drop(stdin), after the write has returned.
IoClose ==
    /\ InIo
    /\ xt.io.toWrite = <<>>
    /\ ~xt.io.closed
    /\ xt' = [xt EXCEPT !.io.closed = TRUE]
    /\ UNCHANGED resolver

\* The child reads a unit once it has written out what the last one made.
IoChildRead ==
    /\ InIo
    /\ xt.io.pending = <<>>
    /\ xt.io.stdin # <<>>
    /\ xt' = [xt EXCEPT !.io.stdin = Tail(@),
                        !.io.sink = Append(@, Head(xt.io.stdin)),
                        !.io.pending = ChildEmit(xt.io.kind, Head(xt.io.stdin))]
    /\ UNCHANGED resolver

\* The child writes to its standard output.
IoChildWrite ==
    /\ InIo
    /\ xt.io.pending # <<>>
    /\ Len(xt.io.stdout) < PipeCap
    /\ xt' = [xt EXCEPT !.io.stdout = Append(@, Head(xt.io.pending)),
                        !.io.pending = Tail(@)]
    /\ UNCHANGED resolver

\* The child meets the end of its input.
IoChildEnd ==
    /\ InIo
    /\ xt.io.pending = <<>>
    /\ xt.io.stdin = <<>>
    /\ xt.io.closed
    /\ ~xt.io.fin
    /\ xt' = [xt EXCEPT !.io.fin = TRUE, !.io.pending = ChildTrailer(xt.io)]
    /\ UNCHANGED resolver

\* util.rs 89: wait_with_output reads the child's standard output.
IoRead ==
    /\ InIo
    /\ xt.io.closed
    /\ xt.io.stdout # <<>>
    /\ xt' = [xt EXCEPT !.io.stdout = Tail(@),
                        !.io.got = Append(@, Head(xt.io.stdout))]
    /\ UNCHANGED resolver

\* pack_archive.rs 59-68: gzip has exited; the artifact file is written.
PackWrite ==
    /\ xt.phase = "gzip"
    /\ IoDone(xt.io)
    /\ xt' = [xt EXCEPT !.phase = "unpack", !.packed = "ok",
                        !.artifact = Some(xt.io.got), !.io = NoIo]
    /\ UNCHANGED resolver

\* pack_archive.rs 77-99: the target's method, `gunzip -c` of the artifact,
\* create_dir of tmp/artifacts, and the spawn of `tar --extract` fed the
\* inflated stream.
UnpackCall ==
    /\ xt.phase \in {"unpack", "pack_err"}
    /\ xt' = IF xt.method = None
             THEN [xt EXCEPT !.phase = "unpack_err",
                             !.unpacked = "NoPackSpecification"]
             ELSE IF xt.artifacts # None
             THEN [xt EXCEPT !.phase = "unpack_err",
                             !.unpacked = "create_dir"]
             ELSE [xt EXCEPT !.phase = "untar",
                             !.artifacts = Some(EmptyDir),
                             !.io = IoStart("untar",
                                            Gunzip(Unwrap(xt.artifact)))]
    /\ UNCHANGED resolver

\* pack_archive.rs 99-102: tar has exited; its status decides the result.
UnpackDone ==
    /\ xt.phase = "untar"
    /\ IoDone(xt.io)
    /\ LET dir == TarExtract(xt.io.sink) IN
       xt' = IF dir = None
             THEN [xt EXCEPT !.phase = "unpack_err", !.unpacked = "tar",
                             !.io = NoIo]
             ELSE [xt EXCEPT !.phase = "done", !.unpacked = "ok",
                             !.artifacts = dir, !.io = NoIo]
    /\ UNCHANGED resolver

\* pack() and then unpack() on one directory, for every target method and
\* with or without a directory tmp/artifacts left by an earlier call.
InitArchive ==
    /\ InitResolver({})
    /\ opts = [p \in Procs |-> OptsDefault]
    /\ env = [p \in Procs |-> EnvDefault]
    /\ pin = [p \in Procs |-> PinAbsent]
    /\ gitBin = [p \in Procs |-> TRUE]
    /\ wc = [p \in Procs |-> WcClean]
    /\ script = [p \in Procs |-> NoScript]
    /\ packs = NoPacks
    /\ \E method \in {None, Some("tar:gz")}, dir \in PackDirs,
          artifacts \in {None, Some(EmptyDir)} :
        xt = XtStart(method, dir, artifacts)

NextArchive ==
    \/ PackCall
    \/ IoWrite
    \/ IoClose
    \/ IoChildRead
    \/ IoChildWrite
    \/ IoChildEnd
    \/ IoRead
    \/ PackWrite
    \/ UnpackCall
    \/ UnpackDone

\* One invocation in an unpacked archive whose test registers up to
\* MaxAdds paths, plain ones and ones with an embedded newline or NUL.
NulPath == <<"tests", "a" \o NulChar \o "b">>

CheckoutPaths == {RelPath, NlPath, NulPath}

InitCheckout ==
    /\ InitRun({"A"})
    /\ opts = [p \in Procs |-> OptsDefault]
    /\ \E e \in {[EnvDefault EXCEPT !.FETCH = Some("yes")],
                  [EnvDefault EXCEPT !.PACK = Some(PackDir)]} :
        env = [p \in Procs |-> e]
    /\ pin = [p \in Procs |-> PinOk(CommitA)]
    /\ gitBin = [p \in Procs |-> TRUE]
    /\ wc = [p \in Procs |-> WcClean]
    /\ \E adds \in SeqsUpTo(CheckoutPaths, MaxAdds),
          rewrites \in {<<>>, <<<<NlPath, RelPath>>>>} :
        script = [p \in Procs |->
            IF p = "A" THEN [adds |-> adds, rewrites |-> rewrites]
            ELSE NoScript]
    /\ packs = FullPacks

(***************************************************************************)
(* The pack pass of the orchestrator (xtask/src/task/pack.rs 17-79): the   *)
(* HEAD query, the recording test run, the source packaging and the write  *)
(* of the pin file.  The recording test run is invocation "A".             *)
(***************************************************************************)
\* What `git show HEAD --oneline --summary --no-abbrev-commit` prints: the
\* full id, a space, the subject line and the summary; nothing when git
\* exits non-zero (no repository, no commit yet).
HeadSubjects == {"first subject\n create mode 100644 f\n", "\n"}

HeadOutputs ==
    {[status |-> 0, stdout |-> LocalHead \o " " \o s] : s \in HeadSubjects}
    \cup {[status |-> 128, stdout |-> ""]}

\* Mutant of HeadToken: the token is the output up to the first line feed.
HeadTokenLine(stdout) == Before(stdout, "\n")

\* pack.rs 44: commit.split(|&c| c == b' ').next().unwrap()
HeadToken(stdout) == Before(stdout, " ")

\* Mutant of Success: the exit status is not looked at.
SuccessUnchecked(status) == TRUE

\* util.rs 62-69: GoodOutput::success, Ok for the exit status zero only.
Success(status) == status = 0

\* pack.rs 62-65: the text of the pin file, as the document it stands for.
VcsInfoData(commit) ==
    PinFile(JObject(("git" :> JObject("sha1" :> JString(commit)))
                    @@ ("path_in_vcs" :> JString(""))))

PackSteps == <<"show_head", "cargo_test", "cargo_package", "write_vcs_info">>

PackStart ==
    [phase |-> "show_head", commit |-> "", head |-> 0, order |-> <<>>,
     failed |-> "", vcs_info |-> PinAbsent, result |-> "running"]

PackErr(at) ==
    [xt EXCEPT !.phase = "returned", !.failed = at, !.result = "Err",
               !.order = Append(@, at)]

\* pack.rs 31-48: only a spawn failure or a token that is not UTF-8 is an
\* error; the exit status of git is not looked at.
ShowHead ==
    /\ xt.phase = "show_head"
    /\ \E spawned \in BOOLEAN, out \in HeadOutputs :
        xt' = IF ~spawned THEN PackErr("show_head")
              ELSE [xt EXCEPT !.phase = "cargo_test",
                              !.commit = HeadToken(out.stdout),
                              !.head = out.status,
                              !.order = Append(@, "show_head")]
    /\ UNCHANGED resolver

\* pack.rs 52-54: `cargo test` with CARGO_XTEST_DATA_PACK_OBJECTS added to
\* the environment.
CargoTest ==
    /\ xt.phase = "cargo_test"
    /\ \E spawned \in BOOLEAN :
        IF ~spawned
        THEN /\ xt' = PackErr("cargo_test")
             /\ UNCHANGED <<pc, env>>
        ELSE /\ xt' = [xt EXCEPT !.phase = "testing"]
             /\ pc' = [pc EXCEPT !["A"] = "start"]
             /\ env' = [env EXCEPT !["A"] = [@ EXCEPT !.PACK = Some(PackDir)]]
    /\ UNCHANGED <<opts, pin, gitBin, wc, fsvars, script, setup, resources,
                   registered, keys, datapath, shallow, cleared, sparse,
                   fsdata, why, errlog, log, retried>>

\* pack.rs 55-56: the exit status of the test run: non-zero when the
\* resolver aborted or when another test of the suite failed.
CargoTestExit ==
    /\ xt.phase = "testing"
    /\ pc["A"] \in {"done", "aborted"}
    /\ \E others \in BOOLEAN :
        LET status == IF pc["A"] = "done" /\ others THEN 0 ELSE 101 IN
        xt' = IF Success(status)
              THEN [xt EXCEPT !.phase = "cargo_package",
                              !.order = Append(@, "cargo_test")]
              ELSE PackErr("cargo_test")
    /\ UNCHANGED resolver

\* pack.rs 58-61: `cargo package --allow-dirty --no-verify`.
CargoPackage ==
    /\ xt.phase = "cargo_package"
    /\ \E spawned \in BOOLEAN, status \in {0, 101} :
        xt' = IF spawned /\ Success(status)
              THEN [xt EXCEPT !.phase = "write_vcs_info",
                              !.order = Append(@, "cargo_package")]
              ELSE PackErr("cargo_package")
    /\ UNCHANGED resolver

\* pack.rs 63-78: the pin file is written, then PackedData is returned.
WriteVcsInfo ==
    /\ xt.phase = "write_vcs_info"
    /\ \E written \in BOOLEAN :
        xt' = IF written
              THEN [xt EXCEPT !.phase = "returned", !.result = "Ok",
                              !.vcs_info = VcsInfoData(xt.commit),
                              !.order = Append(@, "write_vcs_info")]
              ELSE PackErr("write_vcs_info")
    /\ UNCHANGED resolver

\* The pack pass over a working copy whose tests register up to MaxEntries
\* paths each way.
InitPack ==
    /\ InitResolver({})
    /\ opts = [p \in Procs |-> OptsDefault]
    /\ env = [p \in Procs |-> EnvDefault]
    /\ pin = [p \in Procs |-> PinAbsent]
    /\ gitBin = [p \in Procs |-> TRUE]
    /\ \E rel \in {"clean", "untracked"} :
        wc = [p \in Procs |-> WorkingCopy(rel, "clean")]
    /\ \E adds \in SeqsUpTo({RelPath, NlPath}, MaxEntries),
          items \in SeqsUpTo({RelPath, NlPath}, MaxEntries) :
        script = [p \in Procs |->
            IF p = "A"
            THEN [adds |-> adds,
                  rewrites |-> IF items = <<>> THEN <<>> ELSE <<items>>]
            ELSE NoScript]
    /\ packs = NoPacks
    /\ xt = PackStart

Init ==
    \/ InitArchive
    \/ InitPack
    \/ InitCheckout
    \/ InitEnv
    \/ InitRoundTrip
    \/ InitLocal
    \/ InitPackaged
    \/ InitShared
    \/ InitPins
    \/ InitFair
    \/ InitRegistry
    \/ InitSetup
    \/ InitOrigin

(***************************************************************************)
(* Next-state relations and specifications.                                *)
(***************************************************************************)
NextLocal ==
    \E p \in Procs :
        \/ Setup(p)
        \/ Add(p)
        \/ Rewrite(p)
        \/ BuildStart(p)
        \/ CrateDirNew(p)
        \/ Tracked(p)
        \/ LocalPack(p)
        \/ LocalMap(p)

NextPackaged ==
    \E p \in Procs :
        \/ Setup(p)
        \/ Add(p)
        \/ Rewrite(p)
        \/ BuildStart(p)
        \/ UniqueDir(p)
        \/ Consent(p)
        \/ Acquire(p)
        \/ Drop(p)
        \/ StoreTest(p)
        \/ CloneExec(p)
        \/ BareExec(p)
        \/ BareShallow(p)
        \/ FetchExec(p)
        \/ UnpackExec(p)
        \/ WorktreeAdd(p)
        \/ SparseSet(p)
        \/ CheckoutForce(p)
        \/ FallbackSlow(p)
        \/ PackagedMap(p)

(***************************************************************************)
(* std::env::set_var called by the test between setup() and build(): one   *)
(* of the variables the resolver looks at gets another value, or is        *)
(* removed.  Run "B" is the run whose environment nobody touches.          *)
(***************************************************************************)
EnvChanges(e) ==
    {[e EXCEPT !.FETCH = v] : v \in {None, Some("yes")}}
    \cup {[e EXCEPT !.ORIGIN = v] : v \in {None, Some(MirrorUrl)}}
    \cup {[e EXCEPT !.XTMP = v] : v \in {None, Some(TmpC)}}
    \cup {[e EXCEPT !.TMPDIR = v] : v \in {None, Some(TmpC)}}
    \cup {[e EXCEPT !.PACK = v] : v \in {None, Some(PackDir)}}

Setenv(p) ==
    /\ p = "A"
    /\ pc[p] = "configured"
    /\ env[p] = env["B"]
    /\ \E e \in EnvChanges(env[p]) \ {env[p]} :
        env' = [env EXCEPT ![p] = e]
    /\ UNCHANGED <<opts, pin, gitBin, wc, xt, fsvars, pc, script, setup,
                   resources, registered, keys, datapath, shallow, cleared,
                   sparse, fsdata, why, errlog, log, retried>>

(***************************************************************************)
(* The orchestrator (xtask).  pack runs the tests of the working copy with *)
(* CARGO_XTEST_DATA_PACK_OBJECTS set, then packages the crate; test        *)
(* unpacks the archive and runs its tests with the pack directory and the  *)
(* temporary directory in the environment.  Either returns an error when   *)
(* its `cargo test` fails, so the test pass runs after a pack pass that    *)
(* succeeded.                                                              *)
(***************************************************************************)
\* xtask/src/task/pack.rs 17-79
XtaskPack ==
    /\ pc = [p \in Procs |-> "off"]
    /\ pc' = [pc EXCEPT !["A"] = "start"]
    /\ UNCHANGED <<inputs, fsvars, script, setup, resources, registered, keys,
                   datapath, shallow, cleared, sparse, fsdata, why, errlog,
                   log, retried>>

\* The developer-side pin that a VCS-info override names, and the values
\* of the argument vcs_info (src/bin/xtask/target.rs 26-29).
OverridePath == <<"/", "work", ".xtest_vcs_info.json">>

OverridePin == PinOk(CommitB)

VcsInfos == {[overwrite |-> FALSE, path |-> <<>>],
             [overwrite |-> TRUE, path |-> OverridePath]}

\* src/bin/xtask/task/test.rs 12-72: the tests of the unpacked archive run
\* in the orchestrator's environment with three variables added.
XtaskTest ==
    /\ pc["A"] = "done"
    /\ pc["B"] = "off"
    /\ pc' = [pc EXCEPT !["B"] = "start"]
    /\ \E vcs_info \in VcsInfos :
        env' = [env EXCEPT !["B"] =
                    [@ EXCEPT !.XTMP = Some(TmpB),
                              !.PACK = Some(PackDir),
                              !.VCSINFO = IF vcs_info.overwrite
                                          THEN Some(vcs_info.path)
                                          ELSE @]]
    /\ UNCHANGED <<opts, pin, gitBin, wc, xt, fsvars, script, setup,
                   resources, registered, keys, datapath, shallow, cleared,
                   sparse, fsdata, why, errlog, log, retried>>

Next == NextLocal \/ NextPackaged

NextPack ==
    \/ ShowHead
    \/ CargoTest
    \/ CargoTestExit
    \/ CargoPackage
    \/ WriteVcsInfo
    \/ NextLocal

NextEnv == NextPackaged \/ \E p \in Procs : Setenv(p)

NextRoundTrip ==
    \/ XtaskPack
    \/ XtaskTest
    \/ \E p \in Procs :
        \/ Setup(p)
        \/ Add(p)
        \/ Rewrite(p)
        \/ BuildStart(p)
        \/ CrateDirNew(p)
        \/ Tracked(p)
        \/ LocalPack(p)
        \/ LocalMap(p)
        \/ UniqueDir(p)
        \/ Acquire(p)
        \/ Drop(p)
        \/ StoreTest(p)
        \/ BareExec(p)
        \/ BareShallow(p)
        \/ UnpackExec(p)
        \/ WorktreeAdd(p)
        \/ SparseSet(p)
        \/ CheckoutForce(p)
        \/ FallbackSlow(p)
        \/ PackagedMap(p)

Spec == Init /\ [][Next]_vars

SpecLocal == InitLocal /\ [][NextLocal]_vars

SpecPackaged == InitPackaged /\ [][NextPackaged]_vars

SpecShared == InitShared /\ [][NextPackaged]_vars

SpecPins == InitPins /\ [][NextPackaged]_vars

\* The step of Acquire in which lock_exclusive returns with the lock.
Grant(p) == Acquire(p) /\ lockHolder'[LockDir(p)] = p

\* Every step of p but the wait for the lock.
Running(p) ==
    \/ Setup(p)
    \/ BuildStart(p)
    \/ UniqueDir(p)
    \/ Consent(p)
    \/ Drop(p)
    \/ StoreTest(p)
    \/ CloneExec(p)
    \/ BareExec(p)
    \/ BareShallow(p)
    \/ FetchExec(p)
    \/ UnpackExec(p)
    \/ WorktreeAdd(p)
    \/ SparseSet(p)
    \/ CheckoutForce(p)
    \/ FallbackSlow(p)
    \/ PackagedMap(p)

\* The scheduler is fair and every child process terminates: an invocation
\* that can go on does, and a lock that stays free is granted to a waiter.
\* The failures of File::create and lock_exclusive may happen, not must.
Fair == \A p \in Procs : WF_vars(Running(p)) /\ WF_vars(Grant(p))

NextFair == \E p \in Procs : Running(p) \/ Acquire(p)

SpecFair == InitFair /\ [][NextFair]_vars /\ Fair

SpecRegistry == InitRegistry /\ [][Next]_vars

SpecSetup == InitSetup /\ [][Next]_vars

SpecOrigin == InitOrigin /\ [][Next]_vars

SpecEnv == InitEnv /\ [][NextEnv]_vars

SpecRoundTrip == InitRoundTrip /\ [][NextRoundTrip]_vars

SpecArchive == InitArchive /\ [][NextArchive]_vars

SpecPack == InitPack /\ [][NextPack]_vars

SpecCheckout == InitCheckout /\ [][NextPackaged]_vars

\* One invocation, in a working copy or in an unpacked archive.
SpecModes == (InitLocal \/ InitPackaged) /\ [][Next]_vars

(***************************************************************************)
(* Vocabulary of the properties.                                           *)
(***************************************************************************)
\* The commands that talk to the remote.
NetOps == {"clone", "fetch", "lazy-fetch"}

\* The values of CARGO_XTEST_DATA_FETCH that grant consent.
Accepting == {"yes", "1", "true"}

FetchAccepts(p) == IsSome(env[p].FETCH) /\ Unwrap(env[p].FETCH) \in Accepting

Packaged(p) == setup[p].mode = "VcsFromManifest"

WithPack(p) == IsSome(setup[p].pack_objects)

Ops(p) == {log[p][i].op : i \in DOMAIN log[p]}

ConsentSeen(p) == "consent" \in Ops(p)

\* The paths of p as registered: managed first, then borrowed.
Registered(p) == registered[p].managed \o registered[p].borrowed

\* The positions inside checkout, after its first command has run.
InCheckout == {"sparse_set", "checkout_force", "fallback_all",
               "fallback_complex"}

SameDataDir(p, q) ==
    /\ IsSome(setup[p].datadir)
    /\ setup[p].datadir = setup[q].datadir

(***************************************************************************)
(* C1: in Packaged mode without a pre-shipped pack, a run whose            *)
(* CARGO_XTEST_DATA_FETCH is absent or not an accepting value starts no    *)
(* clone, fetch or other network command and never gets past the consent   *)
(* gate other than by aborting.                                            *)
(***************************************************************************)
C1_NoNetworkWithoutConsent ==
    \A p \in Procs :
        (Packaged(p) /\ ~WithPack(p) /\ ~FetchAccepts(p)) =>
            /\ Ops(p) \cap NetOps = {}
            /\ pc[p] \in {"configured", "unique_dir", "consent", "aborted"}
            /\ ConsentSeen(p) => pc[p] = "aborted"

C1_Witness ==
    \E p \in Procs :
        /\ Packaged(p) /\ ~WithPack(p)
        /\ env[p].FETCH = Some("YES")
        /\ ConsentSeen(p)
        /\ pc[p] = "aborted"

(***************************************************************************)
(* C2: the consent gate yields a ClearedOrigin exactly when the variable   *)
(* is yes, 1 or true; for every other value (absent, non-unicode, another  *)
(* case) it prints the plan - store path, origin, commit, destination and  *)
(* one line for each registered resource - and aborts.                     *)
(***************************************************************************)
PlanPrinted(p) ==
    LET e == errlog[p]
        reg == Registered(p) IN
    /\ Len(e) = 7 + Len(reg)
    /\ e[3] = "Set up bare Git dir in: " \o PathDisplay(DataDir(p))
                \o "/xtest-data-git"
    /\ e[4] = "Git Origin: " \o setup[p].repository
    /\ e[5] = "Fetch Commit: " \o setup[p].commit_id
    /\ e[6] = "Checkout files into: " \o PathDisplay(Unwrap(datapath[p]))
    /\ \A i \in DOMAIN reg :
        e[6 + i] = "  into " \o PathDisplay(reg[i]) \o ": :(top,literal)"
                   \o PathDisplay(reg[i])

C2_ConsentGate ==
    \A p \in Procs :
        /\ IsSome(cleared[p]) =>
            FetchAccepts(p) /\ cleared[p] = Some(setup[p].repository)
        /\ (ConsentSeen(p) /\ FetchAccepts(p)) =>
            /\ IsSome(cleared[p])
            /\ why[p] # Refusal
            /\ "Here is what we planned to do." \notin Range(errlog[p])
        /\ (ConsentSeen(p) /\ ~FetchAccepts(p)) =>
            /\ cleared[p] = None
            /\ pc[p] = "aborted"
            /\ why[p] = Refusal
            /\ PlanPrinted(p)

C2_Witness ==
    \E p \in Procs :
        /\ env[p].FETCH = Some(NotUnicode)
        /\ ConsentSeen(p)
        /\ pc[p] = "aborted"
        /\ Len(registered[p].managed) = 1
        /\ Len(registered[p].borrowed) = 1

(***************************************************************************)
(* C3: in Packaged mode with a pre-shipped pack directory, build() never   *)
(* runs the consent gate and never touches the network - no clone, no      *)
(* fetch, no round trip to a remote during checkout - whatever the state   *)
(* of the shared data directory.                                           *)
(***************************************************************************)
C3_PackNeverUsesNetwork ==
    \A p \in Procs :
        (Packaged(p) /\ WithPack(p)) =>
            Ops(p) \cap (NetOps \cup {"consent"}) = {}

(***************************************************************************)
(* C4: within one Packaged-mode build() the steps run in the order consent *)
(* gate, store initialisation, fetch or unpack, checkout, path rewrite,    *)
(* and a step starts only after every earlier step completed successfully. *)
(***************************************************************************)
StepRank(op) ==
    CASE op = "consent" -> 1
      [] op \in {"clone", "init", "symbolic-ref", "write-shallow"} -> 2
      [] op \in {"fetch", "unpack-objects"} -> 3
      [] OTHER -> 4

C4_StepsInOrder ==
    \A p \in Procs :
        Packaged(p) =>
            /\ \A i, j \in DOMAIN log[p] :
                i < j =>
                    /\ StepRank(log[p][i].op) <= StepRank(log[p][j].op)
                    /\ StepRank(log[p][i].op) < StepRank(log[p][j].op)
                        => log[p][i].ok
            /\ IsSome(fsdata[p]) => pc[p] = "done"

(***************************************************************************)
(* C5: the commit handed to bare init, fetch and checkout is the trimmed   *)
(* git.sha1 string of the pin file read at setup, never the remote's head  *)
(* nor any other runtime value.                                            *)
(***************************************************************************)
Pads == {"", " ", "\n", "\t"}

\* c is s without the whitespace at its two ends.
IsTrimOf(c, s) ==
    /\ \E pre \in Pads, post \in Pads : s = pre \o c \o post
    /\ Len(c) > 0 =>
        /\ SubSeq(c, 1, 1) \notin Whitespace
        /\ SubSeq(c, Len(c), Len(c)) \notin Whitespace

\* The text under git.sha1 of the pin file of p.
PinnedText(p) == pin[p].doc.f["git"].f["sha1"].s

CommitOps == {"write-shallow", "fetch", "worktree-add", "checkout",
              "checkout-pathspec", "lazy-fetch"}

C5_CommitFromPin ==
    \A p \in Procs :
        \A i \in DOMAIN log[p] :
            log[p][i].op \in CommitOps =>
                IsTrimOf(log[p][i].commit, PinnedText(p))

C5_Witness ==
    \E p \in Procs :
        /\ PinnedText(p) = " " \o CommitA \o "\n"
        /\ pc[p] = "done"
        /\ \E i \in DOMAIN log[p] :
            log[p][i].op = "fetch" /\ log[p][i].commit = CommitA

(***************************************************************************)
(* C6: among invocations sharing a data directory at most one is inside a  *)
(* guarded store operation (clone, bare init, fetch, unpack) at any time,  *)
(* and it holds the lock of that directory for the whole operation.        *)
(***************************************************************************)
C6_GuardedOpsExclusive ==
    \A p \in Procs :
        pc[p] \in InGuard =>
            /\ lockHolder[LockDir(p)] = p
            /\ lockFile[LockDir(p)]
            /\ \A q \in Procs \ {p} :
                SameDataDir(p, q) => pc[q] \notin InGuard

C6_Witness ==
    \E p, q \in Procs :
        /\ p # q
        /\ SameDataDir(p, q)
        /\ pc[p] = "fetch_cmd"
        /\ pc[q] \in GuardedOps
        /\ lockHolder[LockDir(q)] = p

(***************************************************************************)
(* C7: checkout runs while holding the lock of the data directory, so it   *)
(* never overlaps a clone, bare init, fetch, unpack or checkout of another *)
(* invocation sharing the directory.                                       *)
(***************************************************************************)
C7_CheckoutUnderLock ==
    \A p \in Procs :
        pc[p] \in InCheckout =>
            /\ lockHolder[LockDir(p)] = p
            /\ \A q \in Procs \ {p} :
                SameDataDir(p, q) => pc[q] \notin (InGuard \cup InCheckout)

(***************************************************************************)
(* C8: the lock is released on every way out of a guarded operation, an    *)
(* abort raised while it is held included: an invocation holds the lock    *)
(* only inside a guarded operation, a terminated one never does, and a     *)
(* failed release ends in the abort of the process.                        *)
(***************************************************************************)
C8_LockReleased ==
    \A p \in Procs :
        /\ pc[p] \notin InGuard => \A d \in DataDirs : lockHolder[d] # p
        /\ why[p] = "process::abort" => pc[p] = "aborted"

C8_Witness ==
    \E p \in Procs :
        /\ pc[p] = "aborted"
        /\ why[p] = "Git operation was not successful"
        /\ log[p] # <<>>
        /\ log[p][Len(log[p])].op = "fetch"
        /\ \A d \in DataDirs : lockHolder[d] # p

LocalDone(p) == setup[p].mode = "Local" /\ pc[p] = "done"

C10_LocalResolvesUnderManifest ==
    \A p \in Procs :
        LocalDone(p) =>
            /\ \A i \in DOMAIN registered[p].managed :
                Unwrap(fsdata[p])[keys[p][i] + 1]
                    = Manifest \o registered[p].managed[i]
            /\ \A i \in DOMAIN registered[p].borrowed :
                resources[p].unmanaged[i]
                    = Manifest \o registered[p].borrowed[i]

(***************************************************************************)
(* C10 amended: in Local mode, after a successful build(), every           *)
(* registered relative path p is resolved to <manifest>/p and every        *)
(* registered absolute path to itself.                                     *)
(***************************************************************************)
ExpectedLocal(path) == IF path[1] = "/" THEN path ELSE Manifest \o path

C10_LocalResolvesRelative ==
    \A p \in Procs :
        LocalDone(p) =>
            /\ IsSome(fsdata[p])
            /\ Len(Unwrap(fsdata[p])) = Len(registered[p].managed)
            /\ Len(resources[p].unmanaged) = Len(registered[p].borrowed)
            /\ \A i \in DOMAIN registered[p].managed :
                Unwrap(fsdata[p])[keys[p][i] + 1]
                    = ExpectedLocal(registered[p].managed[i])
            /\ \A i \in DOMAIN registered[p].borrowed :
                resources[p].unmanaged[i]
                    = ExpectedLocal(registered[p].borrowed[i])

C10_Witness ==
    \E p \in Procs :
        /\ LocalDone(p)
        /\ registered[p].managed = <<RelPath>>
        /\ registered[p].borrowed = <<UpPath>>
        /\ Unwrap(fsdata[p]) = <<<<"/", "crate", "tests", "data.zip">>>>
        /\ resources[p].unmanaged = <<<<"/", "crate", "..", "outside.bin">>>>

(***************************************************************************)
(* C11 as stated: in Packaged mode, after a successful build(), every      *)
(* registered path p - managed or borrowed - is resolved to <worktree>/p,  *)
(* the unique directory of this invocation, and that path was materialised *)
(* by the checkout at the pinned commit.                                   *)
(***************************************************************************)
PackagedDone(p) == Packaged(p) /\ pc[p] = "done"

\* What the caller reads after build(): FsData::path of every key returned
\* by add(), then the borrowed variables.
Resolved(p) ==
    [i \in DOMAIN registered[p].managed |-> Unwrap(fsdata[p])[keys[p][i] + 1]]
    \o resources[p].unmanaged

\* The file at path is in the worktree of p, checked out at the commit the
\* pin file names, and its blob is in the store.
Materialised(p, path) ==
    LET t == trees[DataDir(p)][TreeName(p)] IN
    /\ t.worktree
    /\ IsTrimOf(t.head, PinnedText(p))
    /\ path \in t.files
    /\ Blob(t.head, path) \in store[DataDir(p)].objs

ResolutionRoot(p) ==
    IF setup[p].mode = "Local" THEN Manifest ELSE Unwrap(datapath[p])

ResolutionOf(p, path) ==
    IF path[1] = "/" THEN path ELSE ResolutionRoot(p) \o path

C12_KeysAreStable ==
    \A p \in Procs :
        /\ Len(keys[p]) = Len(registered[p].managed)
        /\ \A i \in DOMAIN keys[p] : keys[p][i] = i - 1
        /\ resources[p].relative_files = registered[p].managed
        /\ pc[p] = "done" =>
            /\ script[p].adds = <<>>
            /\ IsSome(fsdata[p])
            /\ Len(Unwrap(fsdata[p])) = Len(registered[p].managed)
            /\ \A i \in DOMAIN keys[p] :
                FsDataPath(Unwrap(fsdata[p]), keys[p][i])
                    = Some(ResolutionOf(p, registered[p].managed[i]))

C12_Witness ==
    \E p \in Procs :
        /\ Packaged(p)
        /\ pc[p] = "done"
        /\ registered[p].managed = <<RelPath, NlPath, RelPath>>
        /\ keys[p] = <<0, 1, 2>>
        /\ FsDataPath(Unwrap(fsdata[p]), 2) = Some(Unwrap(datapath[p]) \o RelPath)
        /\ FsDataPath(Unwrap(fsdata[p]), 1) = Some(Unwrap(datapath[p]) \o NlPath)

(***************************************************************************)
(* Vocabulary of the tracked verification.                                 *)
(***************************************************************************)
LocalMode(p) == setup[p].mode = "Local"

\* The positions of a Local build after tracked verification let it pass.
PastTracked == {"local_pack", "local_map", "done"}

TrackedMessages == {"Your test depends on ignored file(s)",
                    "Your test depends on untracked file(s)"}

\* The status query over the registered pathspecs ran and git exited zero,
\* or it ran and git gave up.
QueryOk(p) ==
    \E i \in DOMAIN log[p] : log[p][i].op = "status-paths" /\ log[p][i].ok

QueryFailed(p) ==
    \E i \in DOMAIN log[p] : log[p][i].op = "status-paths" /\ ~log[p][i].ok

\* Some registered path is untracked or ignored in the working copy.
SomeUntracked(p) ==
    \E i \in DOMAIN Registered(p) :
        wc[p][Registered(p)[i]] \in {"untracked", "ignored"}

(***************************************************************************)
(* C13: tracked verification in Local mode aborts build() when the status  *)
(* query over the registered pathspecs reports a record starting with !    *)
(* or ?, lets every other status pass, and runs no status query when no    *)
(* path is registered.                                                     *)
(***************************************************************************)
C13_TrackedVerification ==
    \A p \in Procs :
        LocalMode(p) =>
            /\ (QueryOk(p) /\ SomeUntracked(p)) =>
                /\ pc[p] = "aborted"
                /\ why[p] \in TrackedMessages
                /\ "pack-objects" \notin Ops(p)
            /\ why[p] \in TrackedMessages => (QueryOk(p) /\ SomeUntracked(p))
            /\ (pc[p] \in PastTracked /\ Registered(p) # <<>>) =>
                "status-paths" \in Ops(p)
            /\ Registered(p) = <<>> => "status-paths" \notin Ops(p)

C13_Witness ==
    \E p \in Procs :
        /\ LocalMode(p)
        /\ registered[p].managed = <<NlPath>>
        /\ registered[p].borrowed = <<RelPath>>
        /\ wc[p][RelPath] = "ignored"
        /\ QueryOk(p)
        /\ pc[p] = "aborted"
        /\ why[p] = "Your test depends on ignored file(s)"

\* A modified file passes the verification.
C13_WitnessModified ==
    \E p \in Procs :
        /\ LocalMode(p)
        /\ registered[p].managed = <<RelPath>>
        /\ wc[p][RelPath] = "modified"
        /\ QueryOk(p)
        /\ pc[p] = "done"

(***************************************************************************)
(* C14 as stated: in every mode, when a registered path is not tracked by  *)
(* the VCS the resolver aborts before any network operation is started.    *)
(***************************************************************************)
\* The VCS does not track the path: untracked or ignored in the working
\* copy, or, for an unpacked archive, not in the tree of the repository.
NotTracked(p, path) ==
    IF Packaged(p) THEN path \notin TreePaths
    ELSE wc[p][path] \in {"untracked", "ignored"}

OutsideManifest(path) ==
    \/ path[1] = ".."
    \/ /\ path[1] = "/"
       /\ ~(Len(path) > Len(Manifest)
            /\ SubSeq(path, 1, Len(Manifest)) = Manifest)

C15_OutsideRejected ==
    \A p \in Procs :
        (LocalMode(p)
         /\ \E i \in DOMAIN Registered(p) : OutsideManifest(Registered(p)[i]))
        => pc[p] \notin PastTracked

(***************************************************************************)
(* C16: every operation of the VCS driver either succeeds or aborts the    *)
(* process: when the child process of an operation exits non-zero, build() *)
(* aborts and no later step runs.                                          *)
(***************************************************************************)
\* The commands whose failure the claim is about (the sparse attempt has a
\* fallback of its own, and a failed round trip fails the command it is
\* part of).
DriverOps == {"status", "status-paths", "clone", "init", "symbolic-ref",
              "fetch", "unpack-objects", "pack-objects", "worktree-add",
              "checkout", "checkout-pathspec"}

C16_FailureAborts ==
    \A p \in Procs :
        \A i \in DOMAIN log[p] :
            (log[p][i].op \in DriverOps /\ ~log[p][i].ok) =>
                /\ i = Len(log[p])
                /\ pc[p] \in {"aborted", "unwind"}

(***************************************************************************)
(* Vocabulary of setup().                                                  *)
(***************************************************************************)
\* setup() has returned or aborted.
SetupRan(p) == pc[p] \notin {"off", "start"}

\* The positions and the commands of each branch of build().
LocalPositions == {"crate_dir", "tracked", "local_pack", "local_map"}

PackagedPositions ==
    {"unique_dir", "consent", "checkout", "rewrite"}
    \cup GuardedOps \cup InGuard \cup InCheckout

LocalCommands == {"status", "status-paths", "pack-objects"}

\* The pin file can be read, is JSON and has a string at git.sha1.
HasPinnedText(p) ==
    LET doc == pin[p].doc IN
    /\ pin[p].exists /\ pin[p].readable /\ pin[p].parses
    /\ doc.t = "object"
    /\ "git" \in DOMAIN doc.f
    /\ doc.f["git"].t = "object"
    /\ "sha1" \in DOMAIN doc.f["git"].f
    /\ doc.f["git"].f["sha1"].t = "string"

\* Nothing of the build of p has happened: no command, no worktree, no
\* store, no lock file.
NothingStarted(p) ==
    /\ log[p] = <<>>
    /\ datapath[p] = None
    /\ shallow[p] = None
    /\ fsdata[p] = None
    /\ \A d \in DataDirs :
        /\ ~store[d].exists
        /\ ~lockFile[d]
        /\ DOMAIN trees[d] = {}

(***************************************************************************)
(* C17: setup() selects Packaged mode exactly when the pin file exists in  *)
(* the manifest directory, Local mode otherwise; the mode is fixed by      *)
(* setup() and build() follows the branch of that mode.                    *)
(***************************************************************************)
C17_ModeFromPinFile ==
    \A p \in Procs :
        SetupRan(p) =>
            /\ setup[p].ok => /\ Packaged(p) <=> pin[p].exists
                              /\ LocalMode(p) <=> ~pin[p].exists
            /\ ~setup[p].ok => pc[p] = "aborted" /\ NothingStarted(p)
            /\ pc[p] \in LocalPositions => LocalMode(p) /\ ~pin[p].exists
            /\ pc[p] \in PackagedPositions => Packaged(p) /\ pin[p].exists
            /\ Ops(p) \cap LocalCommands # {} => ~pin[p].exists
            /\ Ops(p) \ LocalCommands # {} => pin[p].exists

C17_Witness ==
    \E p \in Procs :
        /\ pin[p].exists
        /\ Packaged(p)
        /\ pc[p] = "done"
        /\ "worktree-add" \in Ops(p)

C19_PinStructure ==
    \A p \in Procs :
        SetupRan(p) =>
            /\ (pin[p].exists /\ pin[p].readable /\ ~HasPinnedText(p)) =>
                /\ pc[p] = "aborted"
                /\ ~setup[p].ok
                /\ NothingStarted(p)
            /\ (setup[p].ok /\ Packaged(p)) =>
                /\ HasPinnedText(p)
                /\ IsTrimOf(setup[p].commit_id, PinnedText(p))
                /\ setup[p] = SetupOutcome(opts[p], env[p],
                                           PinOk(PinnedText(p)), gitBin[p])

C19_Witness ==
    \E p \in Procs :
        /\ pin[p] = PinWithExtras(CommitA \o "\n")
        /\ setup[p].ok
        /\ setup[p].commit_id = CommitA
        /\ pc[p] = "done"

\* A pin whose git member is a string: the abort of the structural check.
C19_WitnessAbort ==
    \E p \in Procs :
        /\ pin[p] = PinFile(JObject("git" :> JString(CommitA)))
        /\ pc[p] = "aborted"
        /\ why[p] = "VCS commit ID not recognized."

(***************************************************************************)
(* C20: in Packaged mode the data directory of the object store is the     *)
(* compile-time temporary directory of the test harness when there is one, *)
(* else CARGO_XTEST_DATA_TMPDIR when set, else TMPDIR when set; with none  *)
(* of the three setup() aborts.                                            *)
(***************************************************************************)
C20_DataDirPrecedence ==
    \A p \in Procs :
        (SetupRan(p) /\ HasPinnedText(p)
         /\ ByteLen(Trim(PinnedText(p))) >= 40 /\ gitBin[p]) =>
            LET target == opts[p].target_tmpdir
                xtmp == env[p].XTMP
                tmpdir == env[p].TMPDIR IN
            /\ target # None => setup[p].ok /\ setup[p].datadir = target
            /\ (target = None /\ xtmp # None) =>
                setup[p].ok /\ setup[p].datadir = xtmp
            /\ (target = None /\ xtmp = None /\ tmpdir # None) =>
                setup[p].ok /\ setup[p].datadir = tmpdir
            /\ (target = None /\ xtmp = None /\ tmpdir = None) =>
                /\ pc[p] = "aborted"
                /\ ~setup[p].ok
                /\ NothingStarted(p)
            /\ setup[p].ok =>
                \A d \in DataDirs \ {Unwrap(setup[p].datadir)} :
                    ~store[d].exists /\ ~lockFile[d] /\ DOMAIN trees[d] = {}

C20_Witness ==
    \E p \in Procs :
        /\ opts[p].target_tmpdir = None
        /\ env[p].XTMP = Some(TmpB)
        /\ env[p].TMPDIR = Some(TmpC)
        /\ pc[p] = "done"
        /\ store[TmpB].exists
        /\ Unwrap(datapath[p])[2] = "t2"

(***************************************************************************)
(* C21: the repository URL and its override.                               *)
(***************************************************************************)
\* The origin the text of the contract prescribes: the value of
\* CARGO_XTEST_DATA_REPOSITORY_ORIGIN when it is set, else the compile-time
\* URL.
PrescribedOrigin(p) ==
    IF env[p].ORIGIN # None THEN env[p].ORIGIN[1] ELSE opts[p].pkg_repository

UrlOps == {"consent", "clone", "fetch"}

\* C21: once setup() has run, an empty compile-time URL has aborted it
\* whatever the override is, an empty resulting origin has aborted it, and
\* otherwise the origin kept by the builder, shown in the plan, cleared by
\* the consent and handed to clone and fetch is the override when it is set
\* and the compile-time URL when it is not.
C21_OriginOverride ==
    \A p \in Procs :
        SetupRan(p) =>
            /\ opts[p].pkg_repository = "" => pc[p] = "aborted"
            /\ PrescribedOrigin(p) = "" => pc[p] = "aborted"
            /\ setup[p].ok => setup[p].repository = PrescribedOrigin(p)
            /\ IsSome(cleared[p]) => Unwrap(cleared[p]) = PrescribedOrigin(p)
            /\ \A i \in 1..Len(log[p]) :
                log[p][i].op \in UrlOps =>
                    log[p][i].url = PrescribedOrigin(p)

\* An invocation whose override differs from the compile-time URL has
\* cloned from the override.
C21_Witness ==
    \E p \in Procs :
        /\ opts[p].pkg_repository = PkgUrl
        /\ env[p].ORIGIN = Some(MirrorUrl)
        /\ \E i \in 1..Len(log[p]) :
            /\ log[p][i].op = "clone"
            /\ log[p][i].ok
            /\ log[p][i].url = MirrorUrl

\* An empty compile-time URL has aborted setup() although the override
\* names a repository.
C21_WitnessEmptyUrl ==
    \E p \in Procs :
        /\ opts[p].pkg_repository = ""
        /\ env[p].ORIGIN = Some(MirrorUrl)
        /\ pc[p] = "aborted"
        /\ why[p] = "The crate must have a valid URL in package.repository"

\* An empty override has aborted setup() although the compile-time URL is
\* valid.
C21_WitnessEmptyOverride ==
    \E p \in Procs :
        /\ opts[p].pkg_repository = PkgUrl
        /\ env[p].ORIGIN = Some("")
        /\ pc[p] = "aborted"
        /\ why[p] = "The repository must have a valid URL"

(***************************************************************************)
(* C22: the environment is read once, at setup().                          *)
(***************************************************************************)
ConsentEvents(p) == SelectSeq(log[p], LAMBDA e : e.op = "consent")

\* What build() has done so far that does not depend on the outcome of a
\* git command: the origin, the data directory and the pack directory it
\* works with, and the decision of the consent gate.
SameSettings(p, q) ==
    /\ setup[p].repository = setup[q].repository
    /\ setup[p].pack_objects = setup[q].pack_objects
    /\ setup[p].commit_id = setup[q].commit_id

SameConsent(p, q) ==
    (ConsentEvents(p) # <<>> /\ ConsentEvents(q) # <<>>) =>
        /\ ConsentEvents(p)[1].ok = ConsentEvents(q)[1].ok
        /\ ConsentEvents(p)[1].url = ConsentEvents(q)[1].url

\* C22: two runs whose environment was the same at setup() take the same
\* decisions in build(), whatever is changed in the environment of one of
\* them between its setup() and its build().
C22_EnvReadOnce ==
    (SetupRan("A") /\ SetupRan("B")) =>
        /\ SameSettings("A", "B")
        /\ SameConsent("A", "B")

\* The part of C22 that the code keeps: the origin, the pinned commit and
\* the pack directory are those of the environment at setup().
C22_SettingsReadOnce ==
    (SetupRan("A") /\ SetupRan("B")) => SameSettings("A", "B")

\* CARGO_XTEST_DATA_FETCH was set after setup(): the run has the consent
\* that the untouched run was refused.
C22_Witness ==
    /\ env["B"].FETCH = None
    /\ env["A"].FETCH = Some("yes")
    /\ ConsentEvents("A") # <<>> /\ ConsentEvents("A")[1].ok
    /\ ConsentEvents("B") # <<>> /\ ~ConsentEvents("B")[1].ok

(***************************************************************************)
(* C24: what the recording pass packs.                                     *)
(***************************************************************************)
\* A recording pass of p has written its pack.
Recorded(p) ==
    /\ LocalMode(p)
    /\ WithPack(p)
    /\ pc[p] \in {"local_map", "done"}

\* The registered paths of p that HEAD holds a file for.
RegisteredAtHead(p) ==
    {x \in Range(Registered(p)) : wc[p][x] \in {"clean", "modified"}}

\* C24: after the recording pass the pack directory holds, for every
\* registered path with a file at HEAD, simple or complex, the blob of that
\* file and the commit and trees that lead to it.
C24_PackHoldsRegistered ==
    \A p \in Procs :
        Recorded(p) =>
            /\ Skeleton(LocalHead) \in packs.objs
            /\ \A x \in RegisteredAtHead(p) :
                Blob(LocalHead, InTree(x)) \in packs.objs

\* What the recording pass does write: the commit and the trees of HEAD,
\* and no blob of a registered path.
C24_PackHoldsSkeletonOnly ==
    \A p \in Procs :
        Recorded(p) => packs.objs = {Skeleton(LocalHead)}

\* A recording pass over a simple and tracked path has finished.
C24_Witness ==
    \E p \in Procs :
        /\ Recorded(p)
        /\ pc[p] = "done"
        /\ RelPath \in RegisteredAtHead(p)
        /\ IsSimple(RelPath)

(***************************************************************************)
(* C23: the pack pass followed by the test pass.                           *)
(***************************************************************************)
\* The test pass has unpacked the shipped pack into its store and is about
\* to check the registered paths out, or has done so.
TestPassUnpacked ==
    /\ Packaged("B")
    /\ "unpack-objects" \in Ops("B") \/ packs.objs = {}
    /\ pc["B"] \in {"checkout", "rewrite", "done"} \cup InCheckout

\* C23: after a pack pass over a clean working copy whose registered paths
\* are all tracked, the store of the test pass holds the blob of every path
\* the pack pass registered, so that the checkout of the test pass can
\* materialise it without the network.
C23_RoundTrip ==
    TestPassUnpacked =>
        \A x \in Range(Registered("A")) :
            Blob(CheckoutTarget("B"), InTree(x)) \in store[DataDir("B")].objs

\* What happens instead: a test pass that registers any path never
\* finishes.
C23_TestPassNeverDone ==
    (Packaged("B") /\ Registered("B") # <<>>) => pc["B"] # "done"

\* The test pass has unpacked the pack of a finished pack pass and aborted
\* in its checkout.
C23_Witness ==
    /\ pc["A"] = "done"
    /\ RelPath \in Range(Registered("A"))
    /\ "unpack-objects" \in Ops("B")
    /\ "sparse-checkout" \in Ops("B")
    /\ pc["B"] = "aborted"
    /\ why["B"] = "Git operation was not successful"

(***************************************************************************)
(* C25: pack and unpack of the archive.                                    *)
(***************************************************************************)
TarGzTarget == xt.method = Some("tar:gz")

\* unpack has returned the directory it extracted.
Unpacked == xt.phase = "done"

\* C25: with a tar:gz target and no tmp/artifacts in the way, pack followed
\* by unpack comes to rest only when unpack has returned a directory with
\* the entries and contents of the packed one; with a target that declares
\* no method both return an error, no artifact file is written and
\* tmp/artifacts is left as it was.
C25_ArchiveRoundTrip ==
    /\ (TarGzTarget /\ xt.had = None) =>
            \/ ENABLED NextArchive
            \/ Unpacked /\ xt.artifacts = Some(xt.dir)
    /\ (xt.phase # "off" /\ xt.method = None) =>
            /\ xt.phase \in {"pack", "pack_err", "unpack_err"}
            /\ xt.artifact = None
            /\ xt.artifacts = xt.had
            /\ xt.phase # "pack" => xt.packed = "NoPackSpecification"
            /\ xt.phase = "unpack_err" => xt.unpacked = "NoPackSpecification"

\* The part of C25 that holds: whenever unpack returns a directory, it has
\* the entries and contents of the packed one, and a target without method
\* produces nothing.
C25_UnpackedIsPacked ==
    /\ Unpacked => xt.artifacts = Some(xt.dir)
    /\ (xt.phase # "off" /\ xt.method = None) =>
            /\ xt.phase \in {"pack", "pack_err", "unpack_err"}
            /\ xt.artifact = None
            /\ xt.artifacts = xt.had

\* gzip waits for room in the pipe of its output, which the parent reads
\* only after its own write has returned, and that write waits for room in
\* the pipe of gzip's input.
C25_Witness ==
    /\ xt.phase = "gzip"
    /\ xt.io.toWrite # <<>>
    /\ Len(xt.io.stdin) = PipeCap
    /\ xt.io.pending # <<>>
    /\ Len(xt.io.stdout) = PipeCap

\* A directory with a file in it has made the round trip.
C25_WitnessRoundTrip ==
    /\ Unpacked
    /\ xt.artifacts = Some(xt.dir)
    /\ \E n \in DOMAIN xt.dir : xt.dir[n] # <<>>

(***************************************************************************)
(* C26: the VCS-info override of the test pass.                            *)
(***************************************************************************)
\* The pin file the contract prescribes for p: the one CARGO_XTEST_VCS_INFO
\* names when the variable is set, else the one inside the archive.
PrescribedPin(p) ==
    IF env[p].VCSINFO = Some(OverridePath) THEN OverridePin ELSE pin[p]

PinCommit(pn) == CommitIdFrom(pn.doc.f["git"].f["sha1"].s)

\* C26: the resolver of the test pass works with the commit of the pin
\* that CARGO_XTEST_VCS_INFO names when the test pass was given an
\* override, and with the commit of the archive's pin when it was not.
C26_VcsInfoOverride ==
    (SetupRan("B") /\ setup["B"].ok) =>
        setup["B"].commit_id = PinCommit(PrescribedPin("B"))

\* What the resolver does: the commit is the one of the archive's pin,
\* whether the variable is set or not.
C26_ArchivePinUsed ==
    (SetupRan("B") /\ setup["B"].ok) =>
        setup["B"].commit_id = PinCommit(pin["B"])

\* The test pass was given an override and has set the variable; the
\* resolver in the tested crate has run its setup.
C26_Witness ==
    /\ env["B"].VCSINFO = Some(OverridePath)
    /\ SetupRan("B")
    /\ setup["B"].ok
    /\ setup["B"].commit_id = CommitA
    /\ PinCommit(OverridePin) = CommitB

(***************************************************************************)
(* C27: the partition of the pathspecs in checkout.                        *)
(***************************************************************************)
\* checkout has collected its filter.
FilterCollected(p) ==
    /\ Packaged(p)
    /\ "worktree-add" \in Ops(p)

\* paths is an interleaving of s and c: every entry of paths is an entry of
\* exactly one of them, and each of them keeps the order of paths.
RECURSIVE Interleaved(_, _, _)
Interleaved(paths, s, c) ==
    IF paths = <<>> THEN s = <<>> /\ c = <<>>
    ELSE \/ /\ s # <<>>
            /\ Head(s) = Head(paths)
            /\ Interleaved(Tail(paths), Tail(s), c)
         \/ /\ c # <<>>
            /\ Head(c) = Head(paths)
            /\ Interleaved(Tail(paths), s, Tail(c))

\* A component of the path holds a newline or a NUL.
Embedded(path) ==
    \E i \in DOMAIN path :
        HasChar(path[i], "\n") \/ HasChar(path[i], NulChar)

EventsOf(p, op) == SelectSeq(log[p], LAMBDA e : e.op = op)

\* C27: the filter of checkout is a partition of the registered pathspecs
\* that keeps their order, a pathspec with an embedded newline or NUL is in
\* its complex set, no line written to sparse-checkout set comes from such
\* a pathspec, and every fallback-slow checkout is handed all of them.
C27_Partition ==
    \A p \in Procs :
        FilterCollected(p) =>
            LET f == sparse[p]
                paths == Registered(p) IN
            /\ Interleaved(paths, f.simple_filter, f.complex_paths)
            /\ Range(f.simple_filter) \cap Range(f.complex_paths) = {}
            /\ \A x \in Range(paths) :
                Embedded(x) => x \in Range(f.complex_paths)
            /\ \A i \in DOMAIN EventsOf(p, "sparse-checkout") :
                \A x \in Range(paths) :
                    Embedded(x) =>
                        PathDisplay(x) \o "\n"
                            \notin Range(EventsOf(p, "sparse-checkout")[i].stdin)
            /\ \A i \in DOMAIN EventsOf(p, "checkout-pathspec") :
                \A x \in Range(paths) :
                    Embedded(x) =>
                        PathSpecDisplay(x) \o NulChar
                            \in Range(EventsOf(p, "checkout-pathspec")[i].stdin)

\* A build has registered a plain path between one with a NUL and one with
\* a newline, has fed sparse-checkout set and the fallback-slow checkout.
C27_Witness ==
    \E p \in Procs :
        /\ FilterCollected(p)
        /\ NulPath \in Range(sparse[p].complex_paths)
        /\ NlPath \in Range(sparse[p].complex_paths)
        /\ RelPath \in Range(sparse[p].simple_filter)
        /\ Len(sparse[p].complex_paths) >= 2
        /\ EventsOf(p, "sparse-checkout") # <<>>
        /\ EventsOf(p, "checkout-pathspec") # <<>>

(***************************************************************************)
(* C28: the fallback after a failed sparse attempt.                        *)
(***************************************************************************)
\* The two commands of the sparse attempt.
SparseSteps == {"sparse-checkout", "checkout"}

AllRecords(p) ==
    PathSpecRecords(sparse[p].simple_filter \o sparse[p].complex_paths)

\* The last command of p so far was the given one, and it failed.
JustFailed(p, op) ==
    /\ log[p] # <<>>
    /\ log[p][Len(log[p])].op = op
    /\ ~log[p][Len(log[p])].ok

\* p is about to run the fallback-slow checkout over every pathspec, or
\* could not spawn it.
TakesFallback(p) ==
    \/ pc[p] = "fallback_all"
    \/ pc[p] = "aborted" /\ why[p] = "spawn"

\* C28: when sparse-checkout set or the checkout --force after it has
\* failed, the driver goes on to the fallback-slow checkout, and that
\* checkout is handed the simple pathspecs followed by the complex ones.
C28_FallbackOnFailure ==
    \A p \in Procs :
        /\ \A op \in SparseSteps :
            JustFailed(p, op) => TakesFallback(p)
        /\ \A i, j \in DOMAIN log[p] :
            (/\ i < j
             /\ log[p][i].op \in SparseSteps
             /\ ~log[p][i].ok
             /\ log[p][j].op = "checkout-pathspec")
                => log[p][j].stdin = AllRecords(p)

\* The part of C28 that the driver keeps: a failed sparse-checkout set
\* leads to the fallback-slow checkout with every pathspec.
C28_FallbackAfterSparseSet ==
    \A p \in Procs :
        /\ JustFailed(p, "sparse-checkout") => TakesFallback(p)
        /\ \A i, j \in DOMAIN log[p] :
            (/\ i < j
             /\ log[p][i].op = "sparse-checkout"
             /\ ~log[p][i].ok
             /\ log[p][j].op = "checkout-pathspec")
                => log[p][j].stdin = AllRecords(p)

\* What the driver does after a failed checkout --force: it aborts.
C28_CheckoutFailureAborts ==
    \A p \in Procs :
        JustFailed(p, "checkout") =>
            /\ pc[p] = "aborted"
            /\ why[p] = "Git operation was not successful"

\* sparse-checkout set went well, the checkout --force after it failed.
C28_Witness ==
    \E p \in Procs :
        /\ JustFailed(p, "checkout")
        /\ \E i \in DOMAIN log[p] :
            log[p][i].op = "sparse-checkout" /\ log[p][i].ok
        /\ sparse[p].simple_filter # <<>>
        /\ sparse[p].complex_paths # <<>>

(***************************************************************************)
(* Store initialisation (git.rs 93-147).                                   *)
(***************************************************************************)
InitOps == {"clone", "init"}

\* p ran the clone or init of its store.
RanInit(p) == \E i \in DOMAIN log[p] : log[p][i].op \in InitOps

\* The clone or init that p ran exited with success.
Initialised(p) ==
    \E i \in DOMAIN log[p] : log[p][i].op \in InitOps /\ log[p][i].ok

Probed(p) == \E i \in DOMAIN log[p] : log[p][i].op = "symbolic-ref"

StoreSteps == {"clone_cmd", "clone_new", "clone_probe",
               "bare_cmd", "bare_new", "bare_probe"}

\* C29 as stated: among the invocations that share a data directory at most
\* one runs the clone or init of the store, whatever its outcome.
C29_AtMostOneInit ==
    \A p, q \in Procs :
        (p # q /\ SameDataDir(p, q)) => ~(RanInit(p) /\ RanInit(q))

\* C29: store initialisation is serialised.  From the existence test of
\* the store path to the end of the clone, init or probe an invocation
\* holds the lock of its data directory, what the test found is still true
\* of the store when the command runs, and among the invocations that
\* share a data directory at most one clone or init succeeds; a store that
\* a failed clone or init left missing is initialised by a later one.
C29_InitSerialised ==
    /\ \A p \in Procs :
        pc[p] \in StoreSteps =>
            /\ lockHolder[LockDir(p)] = p
            /\ pc[p] \in {"clone_new", "bare_new"} =>
                   ~store[DataDir(p)].exists
            /\ pc[p] \in {"clone_probe", "bare_probe"} =>
                   store[DataDir(p)].exists
    /\ \A p, q \in Procs :
        (p # q /\ SameDataDir(p, q)) => ~(Initialised(p) /\ Initialised(q))
    /\ \A p \in Procs :
        (Probed(p) /\ ~RanInit(p)) => store[DataDir(p)].exists

\* One invocation initialised the store, the other found it and probed it.
C29_Witness ==
    \E p, q \in Procs :
        /\ p # q
        /\ SameDataDir(p, q)
        /\ Initialised(p)
        /\ Probed(q)
        /\ ~RanInit(q)

\* A clone that failed is followed by the clone of another invocation.
C29_WitnessRetry ==
    \E p, q \in Procs :
        /\ p # q
        /\ SameDataDir(p, q)
        /\ RanInit(p)
        /\ ~Initialised(p)
        /\ Initialised(q)

(***************************************************************************)
(* The shallow marker of Git::bare (git.rs 126-147).                       *)
(***************************************************************************)
\* p wrote the shallow marker of its store.
WroteMarker(p) ==
    \E i \in DOMAIN log[p] : log[p][i].op = "write-shallow" /\ log[p][i].ok

\* C30: when Git::bare is through, whether it initialised the store or
\* found it, <store>/shallow holds exactly the commit id of the pin file of
\* the invocation that ran it, and from the write of the marker to the end
\* of Git::bare that invocation holds the lock of its data directory.
C30_ShallowMarker ==
    \A p \in Procs :
        /\ pc[p] = "bare_drop" =>
            /\ store[DataDir(p)].exists
            /\ store[DataDir(p)].shallowFile = Some(setup[p].commit_id)
            /\ pin[p] = PinOk(setup[p].commit_id)
            /\ WroteMarker(p)
        /\ pc[p] \in {"bare_shallow", "bare_drop"} =>
            lockHolder[LockDir(p)] = p

\* Git::bare of p found the store with the marker of another commit, which
\* another invocation left there, and replaced the marker by its own pin.
C30_Witness ==
    \E p, q \in Procs :
        /\ p # q
        /\ SameDataDir(p, q)
        /\ pc[p] = "bare_drop"
        /\ Probed(p)
        /\ pc[q] \notin InGuard
        /\ \/ WroteMarker(q)
           \/ Initialised(q)
        /\ setup[q].commit_id # setup[p].commit_id
        /\ store[DataDir(p)].shallowFile = Some(setup[p].commit_id)

\* Git::bare of p initialised the store itself.
C30_WitnessFresh ==
    \E p \in Procs :
        /\ pc[p] = "bare_drop"
        /\ Initialised(p)
        /\ store[DataDir(p)].shallowFile = Some(setup[p].commit_id)

(***************************************************************************)
(* C31: Local mode, the tracked check and the pack (lib.rs 372-381).       *)
(***************************************************************************)
\* The aborts of CrateDir::tracked over its records.
TrackedAborts == {"Your test depends on ignored file(s)",
                  "Your test depends on untracked file(s)"}

\* The status command of p has run and its output was looked at.
Verified(p) == Registered(p) = <<>> \/ "status-paths" \in Ops(p)

\* C31: in Local mode nothing is created or written under the pack-objects
\* path before the tracked check of all registered pathspecs is through:
\* while the check has not run, and after it aborted, the path is as it
\* was; a pack directory that was created or written belongs to a run that
\* asked for it, whose check has run and, when the status command gave its
\* records, found no untracked and no ignored path; and a run without a
\* pack-objects path never runs a pack operation.
C31_TrackedBeforePack ==
    \A p \in Procs :
        LocalMode(p) =>
            /\ pc[p] \notin {"local_pack", "local_map", "done", "aborted"} =>
                   packs = NoPacks
            /\ (pc[p] = "aborted" /\ why[p] \in TrackedAborts) =>
                   packs = NoPacks
            /\ packs # NoPacks =>
                /\ WithPack(p)
                /\ Verified(p)
                /\ pc[p] \in {"local_map", "done", "aborted"}
                /\ \A i \in DOMAIN log[p] :
                    (log[p][i].op = "status-paths" /\ log[p][i].ok) =>
                        \A x \in Range(Registered(p)) :
                            wc[p][x] \notin {"untracked", "ignored"}
            /\ ~WithPack(p) =>
                /\ packs = NoPacks
                /\ "pack-objects" \notin Ops(p)
                /\ pc[p] # "local_pack"

\* The check passed over a registered path and the pack was written.
C31_Witness ==
    \E p \in Procs :
        /\ LocalMode(p)
        /\ "status-paths" \in Ops(p)
        /\ "pack-objects" \in Ops(p)
        /\ packs.objs # {}
        /\ Registered(p) # <<>>

\* The check aborted on an untracked path of a run that asked for a pack.
C31_WitnessAbort ==
    \E p \in Procs :
        /\ LocalMode(p)
        /\ WithPack(p)
        /\ pc[p] = "aborted"
        /\ why[p] \in TrackedAborts
        /\ packs = NoPacks

(***************************************************************************)
(* C32: the order of the pack pass (xtask/src/task/pack.rs 17-79).         *)
(***************************************************************************)
PinWritten == xt.vcs_info # PinAbsent

\* C32: the pack pass runs the HEAD query, the recording test run, the
\* source packaging and the pin file write in this order and stops at the
\* first step that fails; the recording test run starts after the HEAD
\* query and has CARGO_XTEST_DATA_PACK_OBJECTS set; when the recording test
\* run or the source packaging fails the pass returns Err, no pin file is
\* written and no PackedData is returned.
C32_PackOrder ==
    /\ IsPrefix(xt.order, PackSteps)
    /\ pc["A"] # "off" =>
        /\ IsPrefix(<<"show_head">>, xt.order)
        /\ env["A"].PACK = Some(PackDir)
    /\ (pc["A"] \notin {"off", "done", "aborted"}) =>
        xt.order = <<"show_head">>
    /\ PinWritten =>
        /\ xt.order = PackSteps
        /\ xt.result = "Ok"
        /\ pc["A"] = "done"
    /\ xt.result = "Ok" => PinWritten
    /\ (pc["A"] = "aborted" /\ xt.phase # "testing") =>
        /\ xt.result = "Err"
        /\ xt.failed = "cargo_test"
    /\ xt.failed \in {"cargo_test", "cargo_package"} =>
        /\ xt.result = "Err"
        /\ xt.phase = "returned"
        /\ ~PinWritten

\* The pass went through all four steps after a recording run that wrote
\* the pack.
C32_Witness ==
    /\ xt.result = "Ok"
    /\ xt.order = PackSteps
    /\ PinWritten
    /\ pc["A"] = "done"
    /\ packs # NoPacks

\* The recording test run aborted and the pass returned the error.
C32_WitnessFailed ==
    /\ xt.failed = "cargo_test"
    /\ pc["A"] = "aborted"
    /\ xt.result = "Err"
    /\ ~PinWritten

(***************************************************************************)
(* C33: the pin file of the pack pass (pack.rs 31-69, lib.rs 240-252).     *)
(***************************************************************************)
\* What the Mode Detector makes of the pin file the pass wrote.
PinSetup == SetupOutcome(OptsDefault, EnvDefault, xt.vcs_info, TRUE)

HeadQueryFailed == xt.phase # "show_head" /\ xt.head # 0

\* C33: whenever the pack pass writes a pin file, its git.sha1 is the full
\* id of HEAD, which the Mode Detector parses into a CommitId equal to
\* HEAD, and a HEAD query that fails makes the pass return an error
\* without a pin file.
C33_PinIsHead ==
    /\ PinWritten =>
        /\ Unwrap(VcsCommit(xt.vcs_info.doc)) = LocalHead
        /\ PinSetup.ok
        /\ PinSetup.commit_id = LocalHead
    /\ HeadQueryFailed =>
        /\ xt.result # "Ok"
        /\ ~PinWritten

\* The part that holds: a pin written after a HEAD query that exited with
\* success names HEAD, and the Mode Detector reads HEAD from it.
C33_PinOfGoodQueryIsHead ==
    (PinWritten /\ xt.head = 0) =>
        /\ Unwrap(VcsCommit(xt.vcs_info.doc)) = LocalHead
        /\ PinSetup.mode = "VcsFromManifest"
        /\ PinSetup.commit_id = LocalHead

\* The HEAD query failed, the pass returned Ok and its pin names no commit.
C33_Witness ==
    /\ HeadQueryFailed
    /\ xt.result = "Ok"
    /\ Unwrap(VcsCommit(xt.vcs_info.doc)) = ""
    /\ ~PinSetup.ok

(***************************************************************************)
(* C34: the two views of the registry (lib.rs 325-356, 451-463).           *)
(***************************************************************************)
\* The registry of p is still whole: build() has not consumed the borrowed
\* entries yet.
Unconsumed(p) == pc[p] \notin {"done", "off"}

C34_Sequences ==
    \A p \in Procs :
        Unconsumed(p) =>
            LET specs == PathSpecs(resources[p])
                paths == AsPaths(resources[p]) IN
            /\ specs = registered[p].managed \o registered[p].borrowed
            /\ paths = registered[p].managed \o registered[p].borrowed
            /\ Len(specs) = Len(paths)
            /\ \A i \in DOMAIN specs :
                PathSpecDisplay(specs[i])
                    = ":(top,literal)" \o PathDisplay(paths[i])

\* A step of add() or rewrite(): the call returns, and what was registered
\* before is still there, in its place.
C34_AppendOnly ==
    \A p \in Procs :
        /\ (pc[p] = "configured" /\ script[p].adds # <<>>) => ENABLED Add(p)
        /\ (pc[p] = "configured" /\ script[p].rewrites # <<>>) =>
               ENABLED Rewrite(p)
        /\ script'[p] # script[p] =>
            /\ pc'[p] = "configured"
            /\ Len(PathSpecs(resources'[p])) > Len(PathSpecs(resources[p]))
        /\ Unconsumed(p)' =>
            /\ IsPrefix(resources[p].relative_files,
                        resources'[p].relative_files)
            /\ IsPrefix(resources[p].unmanaged, resources'[p].unmanaged)

BetweenOps == {"fetch", "unpack", "checkout"} \cup InCheckout

\* q can take the lock of its data directory now.
CanAcquire(q) == ENABLED (Acquire(q) /\ lockHolder'[LockDir(q)] = q)

\* C35: the lock is taken and released once per store operation and is not
\* held between the operations of one invocation: an invocation that is
\* between its store initialisation and its fetch or unpack, or between
\* its fetch or unpack and the end of its checkout, holds no lock, and an
\* invocation of the same data directory that waits to start a store
\* operation can take the lock then unless a third party holds it.
C35_LockFreeBetweenOps ==
    \A p \in Procs :
        pc[p] \in BetweenOps =>
            /\ \A d \in DataDirs : lockHolder[d] # p
            /\ \A q \in Procs \ {p} :
                (SameDataDir(p, q) /\ pc[q] \in GuardedOps
                    /\ lockHolder[LockDir(q)] \notin (Procs \ {p, q})) =>
                    CanAcquire(q)

\* A has initialised the store and not started its fetch or unpack, and B
\* runs a store operation on the same data directory.
C35_Witness ==
    \E p, q \in Procs :
        /\ p # q
        /\ SameDataDir(p, q)
        /\ pc[p] \in {"fetch", "unpack"}
        /\ RanInit(p)
        /\ pc[q] \in InGuard \ {"unwind"}
        /\ lockHolder[LockDir(q)] = q

\* A has fetched or unpacked and not finished its checkout, and B runs a
\* store operation on the same data directory.
C35_WitnessCheckout ==
    \E p, q \in Procs :
        /\ p # q
        /\ SameDataDir(p, q)
        /\ pc[p] \in BetweenOps \ {"fetch", "unpack"}
        /\ Ops(p) \cap {"fetch", "unpack-objects"} # {}
        /\ pc[q] \in InGuard \ {"unwind"}
        /\ lockHolder[LockDir(q)] = q

(***************************************************************************)
(* C36: the lock protocol is free of deadlock (git.rs 529-554).            *)
(***************************************************************************)
Finished(p) == pc[p] \in {"done", "aborted"}

Waiting(p) == pc[p] \in GuardedOps

HoldsLock(p) == \E d \in DataDirs : lockHolder[d] = p

\* No invocation asks for the lock while it holds it.
C36_NoReentry ==
    \A p \in Procs : Waiting(p) => ~HoldsLock(p)

\* C36: the lock protocol is free of deadlock.  No operation asks for the
\* lock while its invocation holds it; under a fair scheduler and with
\* child processes that terminate, every invocation that waits for the
\* lock gets it (or fails to open or lock the file and aborts), and every
\* build() returns or aborts.
C36_DeadlockFree ==
    /\ []C36_NoReentry
    /\ \A p \in Procs :
        /\ Waiting(p) ~> (HoldsLock(p) \/ pc[p] = "aborted")
        /\ <>Finished(p)

\* B waits for the lock that A holds.
C36_Witness ==
    \E p, q \in Procs :
        /\ p # q
        /\ SameDataDir(p, q)
        /\ Waiting(q)
        /\ pc[p] \in InGuard
        /\ lockHolder[LockDir(q)] = p
        /\ ~CanAcquire(q)

(***************************************************************************)
(* C37: consent and the shared data directory (lib.rs 406-422,             *)
(* git.rs 50-89).                                                          *)
(***************************************************************************)
\* The store of p's data directory is there, cloned by another invocation
\* that was given consent.
StoreOfOther(p) ==
    /\ store[DataDir(p)].exists
    /\ \E q \in Procs \ {p} :
        /\ SameDataDir(p, q)
        /\ \E i \in DOMAIN log[q] : log[q][i].op = "consent" /\ log[q][i].ok
        /\ \E i \in DOMAIN log[q] : log[q][i].op = "clone" /\ log[q][i].ok

\* C37: every Packaged-mode invocation without a pre-shipped pack
\* evaluates consent itself, before any of its commands, whatever is in
\* the shared data directory: when its own CARGO_XTEST_DATA_FETCH is not
\* accepting it aborts at the gate with the refusal and starts no clone,
\* probe or fetch, also when another invocation has created the store.
C37_ConsentPerInvocation ==
    \A p \in Procs :
        (Packaged(p) /\ ~WithPack(p)) =>
            /\ log[p] # <<>> => log[p][1].op = "consent"
            /\ ~FetchAccepts(p) =>
                /\ Ops(p) \subseteq {"consent"}
                /\ ~IsSome(cleared[p])
                /\ pc[p] \in {"configured", "unique_dir", "consent",
                              "aborted"}
                /\ ConsentSeen(p) =>
                    /\ pc[p] = "aborted"
                    /\ why[p] = Refusal

\* An invocation without consent was refused while the store that another
\* invocation cloned with consent is in its data directory.
C37_Witness ==
    \E p \in Procs :
        /\ Packaged(p) /\ ~WithPack(p)
        /\ ~FetchAccepts(p)
        /\ ConsentSeen(p)
        /\ why[p] = Refusal
        /\ StoreOfOther(p)

(***************************************************************************)
(* C38: what Local mode leaves alone (lib.rs 280-285, 372-392).            *)
(***************************************************************************)
LocalSteps == {"configured", "crate_dir", "tracked", "local_pack",
               "local_map", "done", "aborted"}

\* No lock file, no lock, no store and no worktree in any data directory.
DataDirsUntouched ==
    \A d \in DataDirs :
        /\ ~lockFile[d]
        /\ lockHolder[d] = NoProc
        /\ store[d] = NoStore
        /\ DOMAIN trees[d] = {}

C38_WitnessNoPack ==
    \E p \in Procs :
        /\ LocalMode(p)
        /\ pc[p] = "done"
        /\ ~WithPack(p)
        /\ env[p].FETCH = Some("yes")
        /\ packs = FullPacks

(***************************************************************************)
(* C39: what a refused run leaves behind (lib.rs 402-422, 491-525).        *)
(***************************************************************************)
\* The directories of the data directory of p that p created.
TreesOf(p) ==
    {n \in DOMAIN trees[DataDir(p)] : trees[DataDir(p)][n].owner = p}

Refused(p) ==
    /\ Packaged(p)
    /\ ~WithPack(p)
    /\ pc[p] = "aborted"
    /\ why[p] = Refusal

\* C39: in Packaged mode the unique worktree directory is created before
\* the consent gate runs: at the gate the directory is there and empty,
\* and a run that is refused leaves in the data directory that one new
\* empty xtest-data-tree* directory and no store, no lock file and no
\* checked-out file.
C39_TreeBeforeConsent ==
    \A p \in Procs :
        (Packaged(p) /\ (pc[p] = "consent" \/ Refused(p))) =>
            LET d == DataDir(p) IN
            /\ IsSome(datapath[p])
            /\ Cardinality(TreesOf(p)) = 1
            /\ \A n \in TreesOf(p) :
                /\ Unwrap(datapath[p]) = Join(d, <<n>>)
                /\ IsPrefix("xtest-data-tree", n)
                /\ trees[d][n].files = {}
                /\ ~trees[d][n].worktree
            /\ store[d] = NoStore
            /\ ~lockFile[d]
            /\ ~IsSome(shallow[p])
            /\ Ops(p) \subseteq {"consent"}

\* A run was refused at the gate.
C39_Witness ==
    \E p \in Procs :
        /\ Refused(p)
        /\ ConsentSeen(p)
        /\ TreesOf(p) # {}
        /\ store[DataDir(p)] = NoStore

(***************************************************************************)
(* C40: where the resolved paths lie (lib.rs 168-171, 430-437, 486-488).   *)
(***************************************************************************)
\* The path with every ".." component and the component before it removed.
RECURSIVE NormalFrom(_, _, _)
NormalFrom(path, i, acc) ==
    IF i > Len(path) THEN acc
    ELSE IF path[i] = ".." /\ Len(acc) > 1
    THEN NormalFrom(path, i + 1, SubSeq(acc, 1, Len(acc) - 1))
    ELSE IF path[i] = ".." THEN NormalFrom(path, i + 1, acc)
    ELSE NormalFrom(path, i + 1, Append(acc, path[i]))

Normal(path) == NormalFrom(path, 1, <<>>)

\* path names a place inside the directory dir.
Inside(dir, path) ==
    /\ IsPrefix(dir, Normal(path))
    /\ Len(Normal(path)) > Len(dir)

\* C40: in Packaged mode, after a successful build(), every resolved path,
\* managed or borrowed, lies inside the worktree directory of this
\* invocation, whatever was registered: an absolute path and a path with
\* parent-directory components too.
C40_ResolvedInsideWorktree ==
    \A p \in Procs :
        PackagedDone(p) =>
            \A i \in DOMAIN Resolved(p) :
                Inside(Unwrap(datapath[p]), Resolved(p)[i])

\* The part that holds: a registered relative path without a
\* parent-directory component is resolved to a place inside the worktree.
C40_PlainRelativeInside ==
    \A p \in Procs :
        PackagedDone(p) =>
            \A i \in DOMAIN Registered(p) :
                (Registered(p)[i][1] # "/"
                    /\ ".." \notin Range(Registered(p)[i])) =>
                    Inside(Unwrap(datapath[p]), Resolved(p)[i])

\* build() returned with an absolute path resolved to itself.
C40_Witness ==
    \E p \in Procs :
        /\ PackagedDone(p)
        /\ \E i \in DOMAIN Registered(p) :
            /\ Registered(p)[i] = AbsPath
            /\ Resolved(p)[i] = AbsPath

====
